---- MODULE Spec2Model ----
(***************************************************************************)
(* Asset-graph store of Amass (package db): the relational manager         *)
(* (Postgres) over the tables assets, relations, executions and            *)
(* execution_logs.  A store operation is a sequence of database            *)
(* statements, each committed on its own; a statement may fail (the        *)
(* connection cannot be opened, or the engine reports an error).           *)
(*   Spec       one caller; each insert operation runs to its return.      *)
(*   SpecRecords Spec without InsertFQDN called on its own.                *)
(*   SpecQuery  Spec with the queries IsCNAMENode, EventFQDNs and          *)
(*              NamesToAddrs.                                              *)
(*   SpecConc   two callers of InsertFQDN whose statements interleave.     *)
(*   SpecDelete Spec with DELETE statements on executions and assets,      *)
(*              under the foreign keys of the schema.                      *)
(*   SpecBackend the choice of the manager (Postgres or Cayley) and the    *)
(*              lifecycle of its database: creation, drop, migrations.     *)
(*   SpecTables the migration operations of two relational managers of    *)
(*              one process, with different tracking tables.               *)
(***************************************************************************)
EXTENDS Integers, Sequences, FiniteSets, TLC

\* ------------------------------------------------------------------ bounds
MaxOps == 2        \* store operations started in one behaviour
MaxFailures == 1   \* statements that fail in one behaviour
MaxManagers == 1   \* managers constructed in one behaviour
MaxMigrations == 2 \* migration files in MigrationsPath

\* ------------------------------------------------------------------ inputs
NoName == "<none>"

\* Host names and their labels (the names split at the dots).
Labels ==
    [n \in {"example.com", "www.example.com", "_sip._tcp.example.com", "example.org",
            "com", "org", "ARIN"} |->
        CASE n = "example.com"     -> <<"example", "com">>
          [] n = "www.example.com" -> <<"www", "example", "com">>
          [] n = "_sip._tcp.example.com" -> <<"_sip", "_tcp", "example", "com">>
          [] n = "example.org"     -> <<"example", "org">>
          [] n = "com"             -> <<"com">>
          [] n = "org"             -> <<"org">>
          [] n = "ARIN"            -> <<"ARIN">>]

Names == DOMAIN Labels

\* The name whose labels are ls.
JoinLabels(ls) == CHOOSE n \in Names : Labels[n] = ls

\* The last k labels of a name.
LastLabels(n, k) == SubSeq(Labels[n], Len(Labels[n]) - k + 1, Len(Labels[n]))

\* The rules of the public suffix list that the modelled names meet.
SuffixRules == {<<"com">>, <<"org">>}

\* publicsuffix.PublicSuffix: the longest rule that is a suffix of the name,
\* and the last label under the implicit "*" rule when there is none.
PublicSuffix(n) ==
    LET ks == {k \in 1..Len(Labels[n]) : LastLabels(n, k) \in SuffixRules}
    IN  IF ks = {} THEN JoinLabels(LastLabels(n, 1))
        ELSE JoinLabels(LastLabels(n, CHOOSE k \in ks : \A j \in ks : j <= k))

\* publicsuffix.EffectiveTLDPlusOne: the public suffix plus one more label;
\* an error (ok = FALSE) when the name is itself a public suffix.
EffectiveTLDPlusOne(n) ==
    LET k == Len(Labels[PublicSuffix(n)])
    IN  IF Len(Labels[n]) <= k
        THEN [ok |-> FALSE, domain |-> NoName]
        ELSE [ok |-> TRUE, domain |-> JoinLabels(LastLabels(n, k + 1))]

\* ------------------------------------------------------------------ state
VARIABLES
    assets,          \* table assets: rows [id, type, content], in id order
    relations,       \* table relations: rows [id, type, from_asset_id, to_asset_id]
    executions,      \* table executions: rows [id, domains]
    execution_logs,  \* table execution_logs: rows [id, execution_id, asset_id]
    serial,          \* the SERIAL sequence of each table: the last id handed out
    stack,           \* per worker: the frames of the store operation it is running
    proc,            \* per worker: the store operation it is running, what it wrote
    history,         \* the completed store operations, in order of completion
    qres,            \* the last query, with its result
    nfail,           \* statements that have failed so far
    mgrs,            \* the managers GetDatabaseManager has constructed, in order
    migrations,      \* the database: whether it exists, the migration files of
                     \* MigrationsPath, the migrations recorded as applied in
                     \* each table, and the table name set in sql-migrate
    graph,           \* the native graph: the names upserted into it, each with
                     \* its event tag
    lifecycle        \* the latest event at the backend, after the outline of
                     \* the RunMigrations or InsertExecution before it

vars == <<assets, relations, executions, execution_logs, serial, stack, proc,
          history, qres, nfail, mgrs, migrations, graph, lifecycle>>

backend == <<mgrs, migrations, graph, lifecycle>>

tables == <<assets, relations, executions, execution_logs, serial>>

Workers == DOMAIN stack

Idle == [op |-> "idle"]
NoQuery == [op |-> "none"]

\* ------------------------------------------------------------------ tables
Range(s) == {s[i] : i \in 1..Len(s)}

\* content->>'key' = value: the JSON object has the key, with that text.
JSONTextIs(content, key, value) == key \in DOMAIN content /\ content[key] = value

\* ------------------------------------------------------------------ frames
(* A frame is one activation of a function of the store: fn names it, pc    *)
(* says which of its calls or statements is under way, the other fields are *)
(* its parameters and locals.  Entering a function pushes its frame and the *)
(* frames of the calls it makes before its first statement.                 *)

Call(frame, push) == [kind |-> "call", frame |-> frame, push |-> push]
Ret(val, err) == [kind |-> "ret", val |-> val, err |-> err]

insertExecutionLog_Enter(assetId, execId) ==
    <<[fn |-> "insertExecutionLog", pc |-> "create", assetId |-> assetId,
       execId |-> execId]>>

InsertFQDN_Enter(info, fqdn) ==
    <<[fn |-> "InsertFQDN", pc |-> "lookup", info |-> info, Name |-> fqdn]>>

\* return p.insertExecutionLog(db, in_asset.ID, info.EventID)
InsertFQDN_Resume(f, val, err) == Ret(val, err)

insertRelation_Enter(from_id, to_id, relation) ==
    <<[fn |-> "insertRelation", pc |-> "create", from_id |-> from_id,
       to_id |-> to_id, relation |-> relation]>>

insertFQDNRelation_Enter(info, fqdn, target, relation) ==
    <<[fn |-> "insertFQDNRelation", pc |-> "target", info |-> info, fqdn |-> fqdn,
       target |-> target, relation |-> relation, target_id |-> 0]>>
    \o InsertFQDN_Enter(info, target)

\* insertFQDNRelation going on with the id it was handed whatever the err.
insertFQDNRelation_Resume_Unchecked(f, val, err) ==
    CASE f.pc = "target" ->
            Call([f EXCEPT !.pc = "fqdn", !.target_id = val],
                 InsertFQDN_Enter(f.info, f.fqdn))
      [] f.pc = "fqdn" ->
            Call([f EXCEPT !.pc = "relation"],
                 insertRelation_Enter(val, f.target_id, f.relation))
      [] f.pc = "relation" -> Ret(0, FALSE)

insertFQDNRelation_Resume(f, val, err) ==
    CASE f.pc = "target" ->
            IF err THEN Ret(0, TRUE)
            ELSE Call([f EXCEPT !.pc = "fqdn", !.target_id = val],
                      InsertFQDN_Enter(f.info, f.fqdn))
      [] f.pc = "fqdn" ->
            IF err THEN Ret(0, TRUE)
            ELSE Call([f EXCEPT !.pc = "relation"],
                      insertRelation_Enter(val, f.target_id, f.relation))
      \* err = p.insertRelation(...); return nil
      [] f.pc = "relation" -> Ret(0, FALSE)

InsertCNAME_Enter(info, dns) ==
    <<[fn |-> "InsertCNAME", pc |-> "relation"]>>
    \o insertFQDNRelation_Enter(info, dns.Fqdn, dns.Target, "cname_record")

\* InsertPTR with its edge drawn from the target to the source name.
InsertPTR_Enter_Reversed(info, dns) ==
    <<[fn |-> "InsertPTR", pc |-> "relation"]>>
    \o insertFQDNRelation_Enter(info, dns.Target, dns.Fqdn, "ptr_record")

InsertPTR_Enter(info, dns) ==
    <<[fn |-> "InsertPTR", pc |-> "relation"]>>
    \o insertFQDNRelation_Enter(info, dns.Fqdn, dns.Target, "ptr_record")

InsertNS_Enter(info, dns) ==
    <<[fn |-> "InsertNS", pc |-> "relation"]>>
    \o insertFQDNRelation_Enter(info, dns.Fqdn, dns.Target, "ns_record")

InsertMX_Enter(info, dns) ==
    <<[fn |-> "InsertMX", pc |-> "relation"]>>
    \o insertFQDNRelation_Enter(info, dns.Fqdn, dns.Target, "mx_record")

\* return p.insertFQDNRelation(...)
InsertDNS_Resume(f, val, err) == Ret(0, err)

InsertSRV_Enter(info, srv) ==
    <<[fn |-> "InsertSRV", pc |-> "service", info |-> info, srv |-> srv]>>
    \o insertFQDNRelation_Enter(info, srv.Service, srv.Fqdn, "service")

InsertSRV_Resume(f, val, err) ==
    CASE f.pc = "service" ->
            IF err THEN Ret(0, TRUE)
            ELSE Call([f EXCEPT !.pc = "srv_record"],
                      insertFQDNRelation_Enter(f.info, f.srv.Service, f.srv.Target,
                                               "srv_record"))
      [] f.pc = "srv_record" -> Ret(0, err)

insertIPAddr_Enter(info, addr, version) ==
    <<[fn |-> "insertIPAddr", pc |-> "create", info |-> info, addr |-> addr,
       version |-> version]>>

insertNetblock_Enter(info, cidr, version) ==
    <<[fn |-> "insertNetblock", pc |-> "create", info |-> info, cidr |-> cidr,
       version |-> version]>>

insertAS_Enter(info, asn) ==
    <<[fn |-> "insertAS", pc |-> "create", info |-> info, asn |-> asn]>>

insertRIROrg_Enter(info, rir) ==
    <<[fn |-> "insertRIROrg", pc |-> "create", info |-> info, rir |-> rir]>>

\* return p.insertExecutionLog(db, in_asset.ID, info.EventID)
insertAsset_Resume(f, val, err) == Ret(val, err)

InsertA_Enter(info, record) ==
    <<[fn |-> "InsertA", pc |-> "fqdn", info |-> info, record |-> record,
       fqdn_id |-> 0]>>
    \o InsertFQDN_Enter(info, record.Fqdn)

\* InsertA with its edge drawn from the ip node to the fqdn node.
InsertA_Resume_Reversed(f, val, err) ==
    CASE f.pc = "fqdn" ->
            IF err THEN Ret(0, TRUE)
            ELSE Call([f EXCEPT !.pc = "ip", !.fqdn_id = val],
                      insertIPAddr_Enter(f.info, f.record.Address, "v4"))
      [] f.pc = "ip" ->
            IF err THEN Ret(0, TRUE)
            ELSE Call([f EXCEPT !.pc = "relation"],
                      insertRelation_Enter(val, f.fqdn_id, "a_record"))
      [] f.pc = "relation" -> Ret(0, FALSE)

InsertA_Resume(f, val, err) ==
    CASE f.pc = "fqdn" ->
            IF err THEN Ret(0, TRUE)
            ELSE Call([f EXCEPT !.pc = "ip", !.fqdn_id = val],
                      insertIPAddr_Enter(f.info, f.record.Address, "v4"))
      [] f.pc = "ip" ->
            IF err THEN Ret(0, TRUE)
            ELSE Call([f EXCEPT !.pc = "relation"],
                      insertRelation_Enter(f.fqdn_id, val, "a_record"))
      \* err = p.insertRelation(fqdn_id, ip_id, "a_record"); return nil
      [] f.pc = "relation" -> Ret(0, FALSE)

InsertAAAA_Enter(info, record) ==
    <<[fn |-> "InsertAAAA", pc |-> "fqdn", info |-> info, record |-> record,
       fqdn_id |-> 0]>>
    \o InsertFQDN_Enter(info, record.Fqdn)

InsertAAAA_Resume(f, val, err) ==
    CASE f.pc = "fqdn" ->
            IF err THEN Ret(0, TRUE)
            ELSE Call([f EXCEPT !.pc = "ip", !.fqdn_id = val],
                      insertIPAddr_Enter(f.info, f.record.Address, "v6"))
      [] f.pc = "ip" ->
            IF err THEN Ret(0, TRUE)
            ELSE Call([f EXCEPT !.pc = "relation"],
                      insertRelation_Enter(f.fqdn_id, val, "aaaa_record"))
      \* err = p.insertRelation(fqdn_id, ip_id, "aaaa_record"); return nil
      [] f.pc = "relation" -> Ret(0, FALSE)

InsertInfrastructure_Enter(info, infra) ==
    <<[fn |-> "InsertInfrastructure", pc |-> "ip", info |-> info, infra |-> infra,
       ip_id |-> 0, netblock_id |-> 0, as_id |-> 0, rirorg_id |-> 0]>>
    \o insertIPAddr_Enter(info, infra.Address, "")

\* InsertInfrastructure with its managed_by edge drawn from the rirorg node.
InsertInfrastructure_Resume_Inverted(f, val, err) ==
    CASE f.pc = "ip" ->
            IF err THEN Ret(0, TRUE)
            ELSE Call([f EXCEPT !.pc = "netblock", !.ip_id = val],
                      insertNetblock_Enter(f.info, f.infra.Cidr, ""))
      [] f.pc = "netblock" ->
            IF err THEN Ret(0, TRUE)
            ELSE Call([f EXCEPT !.pc = "as", !.netblock_id = val],
                      insertAS_Enter(f.info, f.infra.Asn))
      [] f.pc = "as" ->
            IF err THEN Ret(0, TRUE)
            ELSE Call([f EXCEPT !.pc = "rirorg", !.as_id = val],
                      insertRIROrg_Enter(f.info, f.infra.Description))
      [] f.pc = "rirorg" ->
            IF err THEN Ret(0, TRUE)
            ELSE Call([f EXCEPT !.pc = "contains", !.rirorg_id = val],
                      insertRelation_Enter(f.netblock_id, f.ip_id, "contains"))
      [] f.pc = "contains" ->
            IF err THEN Ret(0, TRUE)
            ELSE Call([f EXCEPT !.pc = "announces"],
                      insertRelation_Enter(f.as_id, f.netblock_id, "announces"))
      [] f.pc = "announces" ->
            IF err THEN Ret(0, TRUE)
            ELSE Call([f EXCEPT !.pc = "managed_by"],
                      insertRelation_Enter(f.rirorg_id, f.as_id, "managed_by"))
      [] f.pc = "managed_by" -> Ret(0, err)

InsertInfrastructure_Resume(f, val, err) ==
    CASE f.pc = "ip" ->
            IF err THEN Ret(0, TRUE)
            ELSE Call([f EXCEPT !.pc = "netblock", !.ip_id = val],
                      insertNetblock_Enter(f.info, f.infra.Cidr, ""))
      [] f.pc = "netblock" ->
            IF err THEN Ret(0, TRUE)
            ELSE Call([f EXCEPT !.pc = "as", !.netblock_id = val],
                      insertAS_Enter(f.info, f.infra.Asn))
      [] f.pc = "as" ->
            IF err THEN Ret(0, TRUE)
            ELSE Call([f EXCEPT !.pc = "rirorg", !.as_id = val],
                      insertRIROrg_Enter(f.info, f.infra.Description))
      [] f.pc = "rirorg" ->
            IF err THEN Ret(0, TRUE)
            ELSE Call([f EXCEPT !.pc = "contains", !.rirorg_id = val],
                      insertRelation_Enter(f.netblock_id, f.ip_id, "contains"))
      [] f.pc = "contains" ->
            IF err THEN Ret(0, TRUE)
            ELSE Call([f EXCEPT !.pc = "announces"],
                      insertRelation_Enter(f.as_id, f.netblock_id, "announces"))
      [] f.pc = "announces" ->
            IF err THEN Ret(0, TRUE)
            ELSE Call([f EXCEPT !.pc = "managed_by"],
                      insertRelation_Enter(f.as_id, f.rirorg_id, "managed_by"))
      [] f.pc = "managed_by" -> Ret(0, err)

\* What the caller f does with the result (val, err) of the call it made.
Resume(f, val, err) ==
    CASE f.fn = "InsertFQDN" -> InsertFQDN_Resume(f, val, err)
      [] f.fn = "insertFQDNRelation" -> insertFQDNRelation_Resume(f, val, err)
      [] f.fn \in {"InsertCNAME", "InsertPTR", "InsertNS", "InsertMX"} ->
            InsertDNS_Resume(f, val, err)
      [] f.fn = "InsertSRV" -> InsertSRV_Resume(f, val, err)
      [] f.fn \in {"insertIPAddr", "insertNetblock", "insertAS", "insertRIROrg"} ->
            insertAsset_Resume(f, val, err)
      [] f.fn = "InsertA" -> InsertA_Resume(f, val, err)
      [] f.fn = "InsertAAAA" -> InsertAAAA_Resume(f, val, err)
      [] f.fn = "InsertInfrastructure" -> InsertInfrastructure_Resume(f, val, err)

RECURSIVE Return(_, _, _)
\* The caller on top of the frames rest goes on with k: its next call, or
\* its own return.
Continue(rest, k) ==
    IF k.kind = "call"
    THEN [stack |-> rest \o <<k.frame>> \o k.push, done |-> FALSE, val |-> 0,
          err |-> FALSE]
    ELSE Return(rest, k.val, k.err)

\* The frames below the one that returns (val, err), after the callers have
\* run up to their next call; done when the store operation itself returned.
Return(stk, val, err) ==
    IF stk = <<>> THEN [stack |-> <<>>, done |-> TRUE, val |-> val, err |-> err]
    ELSE Continue(SubSeq(stk, 1, Len(stk) - 1), Resume(stk[Len(stk)], val, err))

\* ------------------------------------------------------------------ addresses
NilIP == [family |-> 0, text |-> ""]

\* net.ParseIP: the address in its canonical text form, with its family; nil
\* for a string that is no address.
ParseIP(addr) ==
    CASE addr = "93.184.216.34"        -> [family |-> 4, text |-> "93.184.216.34"]
      [] addr = "::ffff:93.184.216.34" -> [family |-> 4, text |-> "93.184.216.34"]
      [] addr = "2001:db8::1"          -> [family |-> 6, text |-> "2001:db8::1"]
      [] addr = "2001:db8:0:0:0:0:0:1" -> [family |-> 6, text |-> "2001:db8::1"]
      [] OTHER                         -> NilIP

determineIpVersion(ip) ==
    IF ip.family = 4 THEN "v4"
    ELSE IF ip.family = 6 THEN "v6"
    ELSE ""

\* net.ParseCIDR: the address, and the network with the host bits cleared.
ParseCIDR(cidr) ==
    CASE cidr = "93.184.216.0/24" ->
            [ok |-> TRUE, ip |-> [family |-> 4, text |-> "93.184.216.0"],
             net |-> [IP |-> "93.184.216.0", Mask |-> "ffffff00"]]
      [] cidr = "93.184.216.34/24" ->
            [ok |-> TRUE, ip |-> [family |-> 4, text |-> "93.184.216.34"],
             net |-> [IP |-> "93.184.216.0", Mask |-> "ffffff00"]]
      [] cidr = "2001:db8::/32" ->
            [ok |-> TRUE, ip |-> [family |-> 6, text |-> "2001:db8::"],
             net |-> [IP |-> "2001:db8::", Mask |-> "ffffffff000000000000000000000000"]]
      [] OTHER -> [ok |-> FALSE, ip |-> NilIP, net |-> [IP |-> "", Mask |-> ""]]

\* ------------------------------------------------------------------ statements
(* A machine is the database as one running store operation sees it, with   *)
(* that operation's frames and what it has done so far.  A statement takes  *)
(* a machine to the machine after it; fail says that the statement fails:   *)
(* the connection cannot be opened, or the engine reports an error.         *)

\* What a store operation has done: the ids of the rows it inserted, and
\* the edges (from, to) the database refused for want of an endpoint.
NothingMade == [assets |-> {}, logs |-> {}, relations |-> {}, refused |-> {}]

Machine(frames, made, failed) ==
    [assets |-> assets, relations |-> relations, executions |-> executions,
     execution_logs |-> execution_logs, serial |-> serial,
     stack |-> frames, made |-> made, failed |-> failed,
     done |-> FALSE, val |-> 0, err |-> FALSE, nfail |-> nfail]

TopOf(m) == m.stack[Len(m.stack)]
BelowOf(m) == SubSeq(m.stack, 1, Len(m.stack) - 1)

\* The machine m once its frames have become r.
Returned(m, r) ==
    [m EXCEPT !.stack = r.stack, !.done = r.done, !.val = r.val, !.err = r.err]

\* The function on top returns (val, err) to its caller.
Returns(m, val, err) == Returned(m, Return(BelowOf(m), val, err))

\* The function on top returns an error it met itself.
Refuses(m, val) == [Returns(m, val, TRUE) EXCEPT !.failed = TRUE]

\* The statement fails and the function on top returns the error.
Fails(m, val) == [Refuses(m, val) EXCEPT !.nfail = @ + 1]

\* The foreign keys of execution_logs: fk_asset and fk_execution.
LogKeysHold(m, assetId, execId) ==
    /\ \E a \in Range(m.assets) : a.id = assetId
    /\ \E e \in Range(m.executions) : e.id = execId

\* The foreign keys of relations: fk_from_asset and fk_to_asset.
RelationKeysHold(m, from_id, to_id) ==
    /\ \E a \in Range(m.assets) : a.id = from_id
    /\ \E a \in Range(m.assets) : a.id = to_id

\* db.Create(&in_asset), and then the function on top returns through
\* insertExecutionLog(db, in_asset.ID, info.EventID).
CreatesAsset(m, type, content) ==
    LET row == [id |-> m.serial.assets + 1, type |-> type, content |-> content]
        f == TopOf(m)
    IN  [m EXCEPT !.assets = Append(@, row),
                  !.serial.assets = row.id,
                  !.made.assets = @ \cup {row.id},
                  !.stack = BelowOf(m) \o <<[f EXCEPT !.pc = "log"]>>
                            \o insertExecutionLog_Enter(row.id, f.info.EventID)]

\* InsertFQDN with a lookup that logs the node it finds under the execution.
InsertFQDN_Lookup_Logged(m, fail) ==
    LET f == TopOf(m)
        found == SelectSeq(m.assets, LAMBDA a : JSONTextIs(a.content, "name", f.Name))
    IN  IF fail THEN Fails(m, 0)
        ELSE IF found # <<>>
        THEN [m EXCEPT !.stack = BelowOf(m) \o <<[f EXCEPT !.pc = "log"]>>
                                 \o insertExecutionLog_Enter(found[1].id, f.info.EventID)]
        ELSE IF ~EffectiveTLDPlusOne(f.Name).ok THEN Refuses(m, 0)
        ELSE [m EXCEPT !.stack = BelowOf(m) \o <<[f EXCEPT !.pc = "create"]>>]

\* InsertFQDN, lines 238-256: the lookup by name, then the normalisation.
\* A lookup that takes every error for the absence of the node.
InsertFQDN_Lookup_ErrorAsMiss(m, fail) ==
    LET f == TopOf(m)
        found == SelectSeq(m.assets, LAMBDA a : JSONTextIs(a.content, "name", f.Name))
    IN  IF fail
        THEN [m EXCEPT !.nfail = @ + 1, !.failed = TRUE,
                       !.stack = BelowOf(m) \o <<[f EXCEPT !.pc = "create"]>>]
        ELSE IF found # <<>> THEN Returns(m, found[1].id, FALSE)
        ELSE IF ~EffectiveTLDPlusOne(f.Name).ok THEN Refuses(m, 0)
        ELSE [m EXCEPT !.stack = BelowOf(m) \o <<[f EXCEPT !.pc = "create"]>>]

InsertFQDN_Lookup(m, fail) ==
    LET f == TopOf(m)
        found == SelectSeq(m.assets, LAMBDA a : JSONTextIs(a.content, "name", f.Name))
    IN  IF fail THEN Fails(m, 0)
        ELSE IF found # <<>> THEN Returns(m, found[1].id, FALSE)
        ELSE IF ~EffectiveTLDPlusOne(f.Name).ok THEN Refuses(m, 0)
        ELSE [m EXCEPT !.stack = BelowOf(m) \o <<[f EXCEPT !.pc = "create"]>>]

\* InsertFQDN, lines 258-276: the insert of the asset row.
InsertFQDN_Create(m, fail) ==
    IF fail THEN Fails(m, 0)
    ELSE CreatesAsset(m, "fqdn",
                      [name |-> EffectiveTLDPlusOne(TopOf(m).Name).domain,
                       tld |-> PublicSuffix(TopOf(m).Name)])

insertExecutionLog(m, fail) ==
    LET f == TopOf(m)
        row == [id |-> m.serial.execution_logs + 1, execution_id |-> f.execId,
                asset_id |-> f.assetId]
    IN  IF fail THEN Fails(m, f.assetId)
        ELSE IF ~LogKeysHold(m, f.assetId, f.execId) THEN Refuses(m, f.assetId)
        ELSE [Returns(m, f.assetId, FALSE) EXCEPT
                  !.execution_logs = Append(@, row),
                  !.serial.execution_logs = row.id,
                  !.made.logs = @ \cup {row.id}]

insertRelation(m, fail) ==
    LET f == TopOf(m)
        row == [id |-> m.serial.relations + 1, type |-> f.relation,
                from_asset_id |-> f.from_id, to_asset_id |-> f.to_id]
    IN  IF fail THEN Fails(m, 0)
        ELSE IF ~RelationKeysHold(m, f.from_id, f.to_id)
        THEN [Refuses(m, 0) EXCEPT !.made.refused = @ \cup {<<f.from_id, f.to_id>>}]
        ELSE [Returns(m, 0, FALSE) EXCEPT
                  !.relations = Append(@, row),
                  !.serial.relations = row.id,
                  !.made.relations = @ \cup {row.id}]

insertIPAddr(m, fail) ==
    LET f == TopOf(m)
        ip_addr == ParseIP(f.addr)
        version == IF f.version = "" THEN determineIpVersion(ip_addr) ELSE f.version
    IN  IF fail THEN Fails(m, 0)
        ELSE CreatesAsset(m, "ip", [address |-> ip_addr.text, type |-> version])

insertNetblock(m, fail) ==
    LET f == TopOf(m)
        parsed == ParseCIDR(f.cidr)
        version == IF f.version = "" THEN determineIpVersion(parsed.ip) ELSE f.version
    IN  IF fail THEN Fails(m, 0)
        ELSE IF ~parsed.ok THEN Refuses(m, 0)
        ELSE CreatesAsset(m, "netblock", [cidr |-> parsed.net, type |-> version])

insertAS(m, fail) ==
    IF fail THEN Fails(m, 0)
    ELSE CreatesAsset(m, "as", [number |-> TopOf(m).asn])

insertRIROrg(m, fail) ==
    IF fail THEN Fails(m, 0)
    ELSE CreatesAsset(m, "rirorg",
                      [name |-> TopOf(m).rir, rir_id |-> "unknown", rir |-> "unknown"])

\* The next statement of the running store operation.
Statement(m, fail) ==
    LET f == TopOf(m)
    IN  CASE f.fn = "InsertFQDN" /\ f.pc = "lookup" -> InsertFQDN_Lookup(m, fail)
          [] f.fn = "InsertFQDN" /\ f.pc = "create" -> InsertFQDN_Create(m, fail)
          [] f.fn = "insertExecutionLog" -> insertExecutionLog(m, fail)
          [] f.fn = "insertRelation" -> insertRelation(m, fail)
          [] f.fn = "insertIPAddr" -> insertIPAddr(m, fail)
          [] f.fn = "insertNetblock" -> insertNetblock(m, fail)
          [] f.fn = "insertAS" -> insertAS(m, fail)
          [] f.fn = "insertRIROrg" -> insertRIROrg(m, fail)

RECURSIVE Outcomes(_, _)
\* The machines in which the running store operation can return when at most
\* budget of its statements fail.
Outcomes(m, budget) ==
    IF m.done THEN {m}
    ELSE UNION {Outcomes(Statement(m, fail), IF fail THEN budget - 1 ELSE budget) :
                    fail \in {FALSE} \cup {budget > 0}}

\* ------------------------------------------------------------------ queries
\* The pairs of rows a JOIN of left and right selects from, left rows first;
\* the ON condition of the join then selects among them.
JoinRows(left, right) ==
    [k \in 1..(Len(left) * Len(right)) |->
        <<left[((k - 1) \div Len(right)) + 1], right[((k - 1) % Len(right)) + 1]>>]

\* The query of IsCNAMENode: the number of joined rows.
IsCNAMENode_Count(fqdn) ==
    Len(SelectSeq(
            JoinRows(assets, relations),
            LAMBDA j : /\ j[2].from_asset_id = j[1].id
                       /\ JSONTextIs(j[1].content, "name", fqdn)
                       /\ j[2].type = "cname"))

IsCNAMENode_Result(fqdn) == IsCNAMENode_Count(fqdn) > 0

\* EventFQDNs_Result without the execution_id condition of the WHERE clause.
EventFQDNs_Result_AnyExecution(execID) ==
    LET rows == SelectSeq(
                    JoinRows(assets, execution_logs),
                    LAMBDA j : j[2].asset_id = j[1].id /\ j[1].type = "fqdn")
    IN  [i \in 1..Len(rows) |-> rows[i][1].content.name]

\* The query of EventFQDNs: content->>'name' of the joined rows.
EventFQDNs_Result(execID) ==
    LET rows == SelectSeq(
                    JoinRows(assets, execution_logs),
                    LAMBDA j : /\ j[2].asset_id = j[1].id
                               /\ j[2].execution_id = execID
                               /\ j[1].type = "fqdn")
    IN  [i \in 1..Len(rows) |-> rows[i][1].content.name]

\* The query of NamesToAddrs: neither execID nor names is part of it.
NamesToAddrs_Result(execID, names) ==
    LET froms == SelectSeq(JoinRows(assets, relations),
                           LAMBDA j : j[2].from_asset_id = j[1].id)
        rows == SelectSeq(JoinRows(froms, assets),
                    LAMBDA b : /\ b[2].id = b[1][2].to_asset_id
                               /\ b[1][1].type = "fqdn"
                               /\ b[2].type = "ip"
                               /\ b[1][2].type \in {"a_record", "aaaa_record"})
    IN  [i \in 1..Len(rows) |->
            [Name |-> rows[i][1][1].content.name, Addr |-> rows[i][2].content.address]]

\* ------------------------------------------------------------------ callers
EventIDs == {1, 2}

\* The InsertInfo of a caller: the id InsertExecution returned last.  A caller
\* creates its execution before it inserts.
Infos == {[EventID |-> e] : e \in {serial.executions} \ {0}}

FQDNs == {"example.com", "www.example.com", "com"}

\* The names concurrent callers upsert: each is its own registrable domain.
ConcurrentFQDNs == {"example.com", "example.org"}

CNAMERecords ==
    {[Fqdn |-> "www.example.com", Target |-> "example.com"],
     [Fqdn |-> "example.org", Target |-> "example.com"]}

DNSRecords == {[Fqdn |-> "example.com", Target |-> "example.org"]}

Services ==
    {[Service |-> "_sip._tcp.example.com", Fqdn |-> "example.com",
      Target |-> "example.org"]}

ARecords ==
    {[Fqdn |-> "example.com", Address |-> "93.184.216.34"],
     [Fqdn |-> "example.com", Address |-> "93.184.216.256"]}

AAAARecords == {[Fqdn |-> "example.org", Address |-> "2001:db8:0:0:0:0:0:1"]}

Infrastructures ==
    {[Asn |-> 64500, Description |-> "com", Address |-> "93.184.216.34",
      Cidr |-> "93.184.216.34/24"],
     [Asn |-> 64500, Description |-> "example.com", Address |-> "93.184.216.256",
      Cidr |-> "93.184.216.0/33"]}

DomainLists == {<<"example.com", "example.org">>}

NameLists == {<<"example.com">>, <<>>}

\* The DELETE statements.
Deletions == {"DeleteExecution", "DeleteAsset"}

IsInsert(h) == h.op \notin {"InsertExecution"} \cup Deletions

\* InsertExecution calls made so far: a caller makes one for each run.
Runs == Len(SelectSeq(history, LAMBDA h : h.op = "InsertExecution"))

\* Insert operations and deletions started so far.
Started ==
    Len(SelectSeq(history, LAMBDA h : h.op # "InsertExecution"))
        + Cardinality({w \in Workers : proc[w] # Idle})

\* No store operation is under way and no query result is pending.
Quiet == qres = NoQuery /\ \A w \in Workers : proc[w] = Idle

\* The record of a store operation that has returned (val, err): began is
\* the number of operations that had returned when it was called.
Completed(op, info, args, began, m) ==
    [op |-> op, info |-> info, args |-> args, began |-> began, made |-> m.made,
     failed |-> m.failed, val |-> m.val, err |-> m.err]

\* The tables become those of machine m.
Commit(m) ==
    /\ assets' = m.assets
    /\ relations' = m.relations
    /\ executions' = m.executions
    /\ execution_logs' = m.execution_logs
    /\ serial' = m.serial
    /\ nfail' = m.nfail

\* A caller runs store operation op, whose entry pushes frames, to its
\* return; any of its statements may fail.
Perform(op, info, args, frames) ==
    /\ Quiet
    /\ Started < MaxOps
    /\ \E m \in Outcomes(Machine(frames, NothingMade, FALSE), MaxFailures - nfail) :
           /\ Commit(m)
           /\ history' = Append(history, Completed(op, info, args, Len(history), m))
    /\ UNCHANGED <<stack, proc, qres, backend>>

InsertFQDN ==
    \E info \in Infos, fqdn \in FQDNs :
        Perform("InsertFQDN", info, [Name |-> fqdn], InsertFQDN_Enter(info, fqdn))

InsertCNAME ==
    \E info \in Infos, dns \in CNAMERecords :
        Perform("InsertCNAME", info, dns, InsertCNAME_Enter(info, dns))

InsertPTR ==
    \E info \in Infos, dns \in DNSRecords :
        Perform("InsertPTR", info, dns, InsertPTR_Enter(info, dns))

InsertNS ==
    \E info \in Infos, dns \in DNSRecords :
        Perform("InsertNS", info, dns, InsertNS_Enter(info, dns))

InsertMX ==
    \E info \in Infos, dns \in DNSRecords :
        Perform("InsertMX", info, dns, InsertMX_Enter(info, dns))

InsertSRV ==
    \E info \in Infos, srv \in Services :
        Perform("InsertSRV", info, srv, InsertSRV_Enter(info, srv))

InsertA ==
    \E info \in Infos, record \in ARecords :
        Perform("InsertA", info, record, InsertA_Enter(info, record))

InsertAAAA ==
    \E info \in Infos, record \in AAAARecords :
        Perform("InsertAAAA", info, record, InsertAAAA_Enter(info, record))

InsertInfrastructure ==
    \E info \in Infos, infra \in Infrastructures :
        Perform("InsertInfrastructure", info, infra,
                InsertInfrastructure_Enter(info, infra))

RECURSIVE StringsJoin(_, _)
\* strings.Join: the elements with sep between them, as a sequence of pieces.
StringsJoin(elems, sep) ==
    IF Len(elems) <= 1 THEN elems
    ELSE <<Head(elems), sep>> \o StringsJoin(Tail(elems), sep)

\* InsertExecution is a single statement.  A caller starts a run while it
\* has inserts left to make.
InsertExecution ==
    /\ Quiet
    /\ Runs < Cardinality(EventIDs)
    /\ Started < MaxOps
    /\ UNCHANGED backend
    /\ \E domains \in DomainLists :
        LET row == [id |-> serial.executions + 1, domains |-> StringsJoin(domains, ", ")]
            call(val, err) ==
                [op |-> "InsertExecution", args |-> [domains |-> domains],
                 began |-> Len(history), made |-> NothingMade, failed |-> err,
                 val |-> val, err |-> err]
        IN  \/ /\ nfail < MaxFailures
               /\ nfail' = nfail + 1
               /\ history' = Append(history, call(0, TRUE))
               /\ UNCHANGED <<tables, stack, proc, qres>>
            \/ /\ executions' = Append(executions, row)
               /\ serial' = [serial EXCEPT !.executions = row.id]
               /\ history' = Append(history, call(row.id, FALSE))
               /\ UNCHANGED <<assets, relations, execution_logs, stack, proc, qres,
                              nfail>>

\* A query is a single statement; qres holds it with its result until the
\* caller has taken it.
IsCNAMENode ==
    /\ Quiet
    /\ \E fqdn \in FQDNs \cup {"example.org"} :
        \/ /\ nfail < MaxFailures
           /\ nfail' = nfail + 1
           /\ qres' = [op |-> "IsCNAMENode", fqdn |-> fqdn, val |-> FALSE, err |-> TRUE]
           /\ UNCHANGED <<tables, stack, proc, history, backend>>
        \/ /\ qres' = [op |-> "IsCNAMENode", fqdn |-> fqdn,
                       val |-> IsCNAMENode_Result(fqdn), err |-> FALSE]
           /\ UNCHANGED <<tables, stack, proc, history, nfail, backend>>

EventFQDNs ==
    /\ Quiet
    /\ \E execID \in EventIDs :
        \/ /\ nfail < MaxFailures
           /\ nfail' = nfail + 1
           /\ qres' = [op |-> "EventFQDNs", execID |-> execID, val |-> <<>>,
                       err |-> TRUE]
           /\ UNCHANGED <<tables, stack, proc, history, backend>>
        \/ /\ qres' = [op |-> "EventFQDNs", execID |-> execID,
                       val |-> EventFQDNs_Result(execID), err |-> FALSE]
           /\ UNCHANGED <<tables, stack, proc, history, nfail, backend>>

NamesToAddrs ==
    /\ Quiet
    /\ \E execID \in EventIDs, names \in NameLists :
        \/ /\ nfail < MaxFailures
           /\ nfail' = nfail + 1
           /\ qres' = [op |-> "NamesToAddrs", execID |-> execID, names |-> names,
                       val |-> <<>>, err |-> TRUE]
           /\ UNCHANGED <<tables, stack, proc, history, backend>>
        \/ /\ qres' = [op |-> "NamesToAddrs", execID |-> execID, names |-> names,
                       val |-> NamesToAddrs_Result(execID, names), err |-> FALSE]
           /\ UNCHANGED <<tables, stack, proc, history, nfail, backend>>

\* The caller has taken the result of its query.
TakeResult ==
    /\ qres # NoQuery
    /\ qres' = NoQuery
    /\ UNCHANGED <<tables, stack, proc, history, nfail, backend>>

\* ------------------------------------------------------------------ deletion
(* The store has no operation that deletes; rows are deleted by statements  *)
(* on the schema, whose foreign keys are all ON DELETE CASCADE.              *)

\* fk_execution of execution_logs after DELETE FROM executions WHERE id = id.
DeleteExecution_Logs(logs, id) == SelectSeq(logs, LAMBDA l : l.execution_id # id)

\* fk_asset of execution_logs after DELETE FROM assets WHERE id = id.
DeleteAsset_Logs(logs, id) == SelectSeq(logs, LAMBDA l : l.asset_id # id)

\* The cascade of fk_from_asset alone.
DeleteAsset_Relations_From(rels, id) == SelectSeq(rels, LAMBDA r : r.from_asset_id # id)

\* fk_from_asset and fk_to_asset of relations after DELETE FROM assets.
DeleteAsset_Relations(rels, id) ==
    SelectSeq(rels, LAMBDA r : r.from_asset_id # id /\ r.to_asset_id # id)

\* The record of a DELETE statement.
Deleted(op, id, err) ==
    [op |-> op, args |-> [id |-> id], began |-> Len(history), made |-> NothingMade,
     failed |-> err, val |-> 0, err |-> err]

DeleteExecution ==
    /\ Quiet
    /\ Started < MaxOps
    /\ \E id \in {e.id : e \in Range(executions)} :
        \/ /\ nfail < MaxFailures
           /\ nfail' = nfail + 1
           /\ history' = Append(history, Deleted("DeleteExecution", id, TRUE))
           /\ UNCHANGED tables
        \/ /\ executions' = SelectSeq(executions, LAMBDA e : e.id # id)
           /\ execution_logs' = DeleteExecution_Logs(execution_logs, id)
           /\ history' = Append(history, Deleted("DeleteExecution", id, FALSE))
           /\ UNCHANGED <<assets, relations, serial, nfail>>
    /\ UNCHANGED <<stack, proc, qres, backend>>

DeleteAsset ==
    /\ Quiet
    /\ Started < MaxOps
    /\ \E id \in {a.id : a \in Range(assets)} :
        \/ /\ nfail < MaxFailures
           /\ nfail' = nfail + 1
           /\ history' = Append(history, Deleted("DeleteAsset", id, TRUE))
           /\ UNCHANGED tables
        \/ /\ assets' = SelectSeq(assets, LAMBDA a : a.id # id)
           /\ relations' = DeleteAsset_Relations(relations, id)
           /\ execution_logs' = DeleteAsset_Logs(execution_logs, id)
           /\ history' = Append(history, Deleted("DeleteAsset", id, FALSE))
           /\ UNCHANGED <<executions, serial, nfail>>
    /\ UNCHANGED <<stack, proc, qres, backend>>

\* ------------------------------------------------------------------ workers
(* Concurrent callers: a worker enters InsertFQDN and then runs it one      *)
(* statement at a time, so that the statements of the workers interleave.   *)

InsertFQDN_Call(w) ==
    /\ proc[w] = Idle
    /\ qres = NoQuery
    /\ Started < MaxOps
    /\ \E info \in Infos, fqdn \in ConcurrentFQDNs :
        /\ stack' = [stack EXCEPT ![w] = InsertFQDN_Enter(info, fqdn)]
        /\ proc' = [proc EXCEPT ![w] =
                        [op |-> "InsertFQDN", info |-> info, args |-> [Name |-> fqdn],
                         began |-> Len(history), made |-> NothingMade,
                         failed |-> FALSE]]
    /\ UNCHANGED <<tables, history, qres, nfail, backend>>

\* Worker w runs the next statement of its store operation.
\* Worker w, at p in its operation, has run a statement and left machine m.
Stepped(w, p, m) ==
    /\ Commit(m)
    /\ stack' = [stack EXCEPT ![w] = m.stack]
    /\ IF m.done
       THEN /\ proc' = [proc EXCEPT ![w] = Idle]
            /\ history' = Append(history, Completed(p.op, p.info, p.args, p.began, m))
       ELSE /\ proc' = [proc EXCEPT ![w] = [p EXCEPT !.made = m.made,
                                                    !.failed = m.failed]]
            /\ UNCHANGED history

Step(w) ==
    /\ proc[w] # Idle
    /\ \E fail \in {FALSE} \cup {nfail < MaxFailures} :
        Stepped(w, proc[w], Statement(Machine(stack[w], proc[w].made, proc[w].failed),
                                      fail))
    /\ UNCHANGED <<qres, backend>>

\* ------------------------------------------------------------------ backend
(* The choice of the manager and the lifecycle of its database.  The        *)
(* relational managers share one database; its migrations are numbered in   *)
(* the order of their file names.  A fault is the fallible step of a call    *)
(* that fails, 0 for none; the backend may fail at any call.                 *)

Systems == {"postgres", "cayley", "", "sqlite"}

\* The table in which sql-migrate records the applied migrations when no
\* other has been set, and the tables of the database.
DefaultTable == "gorp_migrations"
Tables == {DefaultTable, "amass_migrations"}

\* Database configurations: System and MigrationsTable.
Databases ==
    {[System |-> "postgres", MigrationsTable |-> "amass_migrations"],
     [System |-> "cayley", MigrationsTable |-> ""],
     [System |-> "", MigrationsTable |-> ""],
     [System |-> "sqlite", MigrationsTable |-> "amass_migrations"]}

\* A choice that gives the native graph to the systems it does not know.
GetDatabaseManager_Result_Graph(db) ==
    CASE db.System = "postgres" -> [variant |-> "Postgres", db |-> db]
      [] db.System = "cayley" -> [variant |-> "Cayley", db |-> db]
      [] OTHER -> [variant |-> "Cayley", db |-> db]

\* GetDatabaseManager: the manager for configuration db.
GetDatabaseManager_Result(db) ==
    CASE db.System = "postgres" -> [variant |-> "Postgres", db |-> db]
      [] db.System = "cayley" -> [variant |-> "Cayley", db |-> db]
      [] OTHER -> [variant |-> "Postgres", db |-> db]

\* No database yet: the init migration is the one file of MigrationsPath.
NoDatabase ==
    [created |-> FALSE, source |-> {1}, applied |-> [t \in Tables |-> {}],
     table |-> DefaultTable]

\* The database after its init migration.
Initialized ==
    [created |-> TRUE, source |-> {1},
     applied |-> [t \in Tables |-> IF t = DefaultTable THEN {1} ELSE {}],
     table |-> DefaultTable]

\* migrate.SetTable: the table name is a variable of the package, shared by
\* every caller of the process; an empty name leaves it as it is.
SetTable(s, name) == IF name # "" THEN [s EXCEPT !.table = name] ELSE s

\* The migrations recorded as applied in the table sql-migrate uses.
GetMigrationRecords(s) == s.applied[s.table]

\* The outline of event e: what was called, by whom, and what it returned.
Outline(e) == [op |-> e.op, mgr |-> e.mgr, impl |-> e.impl, val |-> e.val, err |-> e.err]

\* The events kept after event e: e, after the outline of the event before
\* it when that was a call whose repetition is of interest.
Logged(e) ==
    IF lifecycle # <<>> /\ lifecycle[Len(lifecycle)].op \in {"RunMigrations", "InsertExecution"}
    THEN <<Outline(lifecycle[Len(lifecycle)]), e>>
    ELSE <<e>>

\* What a lifecycle call leaves and returns: n migrations applied by it, the
\* line it printed, and whether the fault was met.
Outcome(s, val, err, n, out, faulted) ==
    [migrations |-> s, val |-> val, err |-> err, n |-> n, out |-> out,
     faulted |-> faulted]

\* A plan that takes no account of the migrations recorded as applied.
PlanMigration_Whole(s) ==
    SelectSeq([id \in 1..Cardinality(s.source) |-> id], LAMBDA id : TRUE)

\* migrate.PlanMigration, Up: the files not recorded as applied, in order.
PlanMigration(s) ==
    SelectSeq([id \in 1..Cardinality(s.source) |-> id], LAMBDA id : id \notin GetMigrationRecords(s))

\* A run in one transaction: a failure leaves no migration of the run
\* recorded.
ExecMax_Atomic(s, failAt) ==
    IF failAt \in 1..Len(PlanMigration(s))
    THEN [migrations |-> s, n |-> failAt - 1, err |-> TRUE]
    ELSE [migrations |-> [s EXCEPT !.applied[s.table] = @ \cup Range(PlanMigration(s))],
          n |-> Len(PlanMigration(s)), err |-> FALSE]

\* migrate.Exec / migrate.ExecMax without a limit: the planned migrations are
\* applied in order, each in a transaction of its own, up to the one that
\* fails (failAt, 0 for none); n is the number applied.
ExecMax(s, failAt) ==
    IF failAt \in 1..Len(PlanMigration(s))
    THEN [migrations |-> [s EXCEPT !.applied[s.table] =
                             @ \cup Range(SubSeq(PlanMigration(s), 1, failAt - 1))],
          n |-> failAt - 1, err |-> TRUE]
    ELSE [migrations |-> [s EXCEPT !.applied[s.table] = @ \cup Range(PlanMigration(s))],
          n |-> Len(PlanMigration(s)), err |-> FALSE]

\* getSqlConnection as the fallible step k: it fails when the database does
\* not exist.
Connects(s, fault, k) == s.created /\ fault # k

Postgres_getAppliedMigrationsCount(s, fault) ==
    IF ~Connects(s, fault, 1) THEN Outcome(s, 0, TRUE, 0, "", s.created)
    ELSE IF fault = 2 THEN Outcome(s, 0, TRUE, 0, "", TRUE)
    ELSE Outcome(s, Cardinality(GetMigrationRecords(s)), FALSE, 0, "", FALSE)

\* A count of the declared migrations, applied or not.
Postgres_GetPendingMigrationsCount_Declared(s, fault) ==
    IF ~Connects(s, fault, 1) THEN Outcome(s, 0, TRUE, 0, "", s.created)
    ELSE IF fault = 2 THEN Outcome(s, 0, TRUE, 0, "", TRUE)
    ELSE Outcome(s, Cardinality(s.source), FALSE, 0, "", FALSE)

Postgres_GetPendingMigrationsCount(s, fault) ==
    IF ~Connects(s, fault, 1) THEN Outcome(s, 0, TRUE, 0, "", s.created)
    ELSE IF fault = 2 THEN Outcome(s, 0, TRUE, 0, "", TRUE)
    ELSE Outcome(s, Len(PlanMigration(s)), FALSE, 0, "", FALSE)

Postgres_IsDatabaseCreated(s, fault) ==
    IF fault = 1 THEN Outcome(s, FALSE, TRUE, 0, "", TRUE)
    ELSE Outcome(s, s.created, FALSE, 0, "", FALSE)

Postgres_CreateDatabaseIfNotExists(s, fault) ==
    IF fault = 1 THEN Outcome(s, 0, TRUE, 0, "", TRUE)
    ELSE IF s.created THEN Outcome(s, 0, FALSE, 0, "", FALSE)
    ELSE IF fault \in {2, 3}
    THEN Outcome(s, 0, TRUE, 0, "Database does not exist. Creating database...", TRUE)
    ELSE Outcome([s EXCEPT !.created = TRUE], 0, FALSE, 0,
                 "Database does not exist. Creating database...", FALSE)

Postgres_DropDatabase(s, fault) ==
    IF fault = 1 THEN Outcome(s, 0, TRUE, 0, "", TRUE)
    ELSE IF ~s.created \/ fault = 2 THEN Outcome(s, 0, TRUE, 0, "", s.created)
    ELSE Outcome([s EXCEPT !.created = FALSE, !.applied = [t \in Tables |-> {}]], 0, FALSE,
                 0, "", FALSE)

\* The lines RunInitMigration and RunMigrations print after n migrations.
Applied(n) == IF n = 1 THEN "Applied 1 migration!" ELSE "Applied n migrations!"

\* RunInitMigration without the test of its count of applied migrations.
RunInitMigration_Uncounted(s, count, fault) ==
    IF count.err THEN Outcome(s, 0, TRUE, 0, "", count.faulted)
    ELSE IF fault = 3 THEN Outcome(s, 0, TRUE, 0, "", TRUE)
    ELSE IF ExecMax(s, fault - 3).err
    THEN Outcome(ExecMax(s, fault - 3).migrations, 0, TRUE, ExecMax(s, fault - 3).n,
                 "", TRUE)
    ELSE Outcome(ExecMax(s, 0).migrations, 0, FALSE, ExecMax(s, 0).n,
                 Applied(ExecMax(s, 0).n), FALSE)

\* RunInitMigration once its count of applied migrations is known; the fault
\* numbers its fallible steps after those of the count.
RunInitMigration_Counted(s, count, fault) ==
    IF count.err THEN Outcome(s, 0, TRUE, 0, "", count.faulted)
    ELSE IF count.val >= 1
    THEN Outcome(s, 0, FALSE, 0, "Database already initialized.", FALSE)
    ELSE IF fault = 3 THEN Outcome(s, 0, TRUE, 0, "", TRUE)
    ELSE IF ExecMax(s, fault - 3).err
    THEN Outcome(ExecMax(s, fault - 3).migrations, 0, TRUE, ExecMax(s, fault - 3).n,
                 "", TRUE)
    ELSE Outcome(ExecMax(s, 0).migrations, 0, FALSE, ExecMax(s, 0).n,
                 Applied(ExecMax(s, 0).n), FALSE)

Postgres_RunInitMigration(s, fault) ==
    RunInitMigration_Counted(s, Postgres_getAppliedMigrationsCount(s, fault), fault)

Postgres_RunMigrations(s, fault) ==
    IF ~Connects(s, fault, 1) THEN Outcome(s, 0, TRUE, 0, "", s.created)
    ELSE IF ExecMax(s, fault - 1).err
    THEN Outcome(ExecMax(s, fault - 1).migrations, 0, TRUE, ExecMax(s, fault - 1).n,
                 "", TRUE)
    ELSE Outcome(ExecMax(s, 0).migrations, 0, FALSE, ExecMax(s, 0).n,
                 IF ExecMax(s, 0).n = 0 THEN "No migrations to apply."
                 ELSE Applied(ExecMax(s, 0).n),
                 FALSE)

\* Lifecycle methods that act on the relational database.
Cayley_Lifecycle_Relational(op, s) ==
    CASE op = "CreateDatabaseIfNotExists" ->
            Outcome([s EXCEPT !.created = TRUE], 0, FALSE, 0, "", FALSE)
      [] op \in {"RunInitMigration", "RunMigrations"} ->
            Outcome(ExecMax(s, 0).migrations, 0, FALSE, ExecMax(s, 0).n, "", FALSE)
      [] OTHER -> Outcome(s, IF op = "IsDatabaseCreated" THEN FALSE ELSE 0, FALSE, 0, "",
                          FALSE)

\* The lifecycle methods of Cayley.
Cayley_Lifecycle(op, s) ==
    Outcome(s, IF op = "IsDatabaseCreated" THEN FALSE ELSE 0, FALSE, 0, "", FALSE)

Postgres_Lifecycle(op, s, fault) ==
    CASE op = "getAppliedMigrationsCount" -> Postgres_getAppliedMigrationsCount(s, fault)
      [] op = "GetPendingMigrationsCount" -> Postgres_GetPendingMigrationsCount(s, fault)
      [] op = "CreateDatabaseIfNotExists" -> Postgres_CreateDatabaseIfNotExists(s, fault)
      [] op = "DropDatabase" -> Postgres_DropDatabase(s, fault)
      [] op = "IsDatabaseCreated" -> Postgres_IsDatabaseCreated(s, fault)
      [] op = "RunInitMigration" -> Postgres_RunInitMigration(s, fault)
      [] op = "RunMigrations" -> Postgres_RunMigrations(s, fault)

\* The methods of Postgres that begin with getAppliedMigrationsCount or
\* getMigrationsSource.
MigrationOps ==
    {"getAppliedMigrationsCount", "GetPendingMigrationsCount", "RunInitMigration",
     "RunMigrations"}

\* The database as method op of manager mgr finds it: getAppliedMigrationsCount
\* and getMigrationsSource set the table of the configuration, when it
\* names one, before anything else.
Found(mgr, op, s) ==
    IF mgr.variant = "Postgres" /\ op \in MigrationOps
    THEN SetTable(s, mgr.db.MigrationsTable)
    ELSE s

\* Method op of manager mgr: the call goes to the method of its variant.
Lifecycle_Result(mgr, op, s, fault) ==
    IF mgr.variant = "Cayley" THEN Cayley_Lifecycle(op, s)
    ELSE Postgres_Lifecycle(op, Found(mgr, op, s), fault)

\* The fallible steps of a lifecycle call: connections, statements and the
\* migrations of the plan.
Faults == 0..(3 + Cardinality(migrations.source))

\* Manager i has run lifecycle method op and met outcome r.  The tables go
\* with a database that is dropped.
Invoked(op, i, fault, r) ==
    /\ fault = 0 \/ r.faulted
    /\ migrations' = r.migrations
    /\ lifecycle' = Logged([op |-> op, mgr |-> i, impl |-> mgrs[i].variant,
                            before |-> Found(mgrs[i], op, migrations), val |-> r.val,
                            err |-> r.err,
                            n |-> r.n, out |-> r.out, faulted |-> r.faulted])
    /\ IF r.migrations.created \/ ~migrations.created
       THEN UNCHANGED tables
       ELSE /\ assets' = <<>>
            /\ relations' = <<>>
            /\ executions' = <<>>
            /\ execution_logs' = <<>>
            /\ serial' = [t \in DOMAIN serial |-> 0]
    /\ UNCHANGED <<stack, proc, history, qres, nfail, mgrs, graph>>

Invoke(op, i, fault) ==
    Invoked(op, i, fault, Lifecycle_Result(mgrs[i], op, migrations, fault))

getAppliedMigrationsCount ==
    \E i \in 1..Len(mgrs), fault \in Faults : Invoke("getAppliedMigrationsCount", i, fault)

GetPendingMigrationsCount ==
    \E i \in 1..Len(mgrs), fault \in Faults : Invoke("GetPendingMigrationsCount", i, fault)

CreateDatabaseIfNotExists ==
    \E i \in 1..Len(mgrs), fault \in Faults : Invoke("CreateDatabaseIfNotExists", i, fault)

DropDatabase ==
    \E i \in 1..Len(mgrs), fault \in Faults : Invoke("DropDatabase", i, fault)

IsDatabaseCreated ==
    \E i \in 1..Len(mgrs), fault \in Faults : Invoke("IsDatabaseCreated", i, fault)

RunInitMigration ==
    \E i \in 1..Len(mgrs), fault \in Faults : Invoke("RunInitMigration", i, fault)

RunMigrations ==
    \E i \in 1..Len(mgrs), fault \in Faults : Invoke("RunMigrations", i, fault)

\* A caller asks for the manager of a configuration.
GetDatabaseManager ==
    /\ Len(mgrs) < MaxManagers
    /\ \E db \in Databases :
        /\ mgrs' = Append(mgrs, GetDatabaseManager_Result(db))
        /\ lifecycle' = Logged([op |-> "GetDatabaseManager", mgr |-> Len(mgrs) + 1,
                                db |-> db])
    /\ UNCHANGED <<tables, stack, proc, history, qres, nfail, migrations, graph>>

\* A new migration file appears in MigrationsPath.
AddMigration ==
    /\ Cardinality(migrations.source) < MaxMigrations
    /\ migrations' = [migrations EXCEPT !.source = @ \cup {Cardinality(@) + 1}]
    /\ lifecycle' = Logged([op |-> "AddMigration"])
    /\ UNCHANGED <<tables, stack, proc, history, qres, nfail, mgrs, graph>>

\* The names and the execution ids that callers pass to the native graph.
GraphFQDNs == {"example.com"}
GraphEventIDs == {1, 55296, 55297}

\* U+FFFD, the replacement character, and the code points that are not
\* Unicode scalar values: the surrogates and those beyond U+10FFFF.
RuneError == 65533
IsScalarValue(x) == x \in 0..1114111 /\ x \notin 55296..57343

\* string(x) for an int64 x: the string of the one character with code
\* point x, of the replacement character when x is no scalar value.  A
\* string is the sequence of its code points.
string(x) == IF IsScalarValue(x) THEN <<x>> ELSE <<RuneError>>

\* graph.EventFQDNs under Cayley.EventFQDNs: the names of graph g upserted
\* with the event tag of execID.
Cayley_EventFQDNs_Result(g, execID) == {n.name : n \in {x \in g : x.tag = string(execID)}}

\* Cayley.InsertFQDN: the name is upserted into the graph with the event tag
\* string(info.EventID), or the graph reports an error; the id returned is 0.
Cayley_InsertFQDN ==
    \E i \in 1..Len(mgrs), fqdn \in GraphFQDNs, EventID \in GraphEventIDs :
        /\ mgrs[i].variant = "Cayley"
        /\ \/ /\ lifecycle' = Logged([op |-> "InsertFQDN", mgr |-> i, impl |-> "Cayley",
                                      EventID |-> EventID, Name |-> fqdn,
                                      before |-> graph, val |-> 0, err |-> TRUE])
              /\ UNCHANGED graph
           \/ /\ graph' = graph \cup {[name |-> fqdn, tag |-> string(EventID)]}
              /\ lifecycle' = Logged([op |-> "InsertFQDN", mgr |-> i, impl |-> "Cayley",
                                      EventID |-> EventID, Name |-> fqdn,
                                      before |-> graph, val |-> 0, err |-> FALSE])
        /\ UNCHANGED <<tables, stack, proc, history, qres, nfail, mgrs, migrations>>

\* Cayley.InsertExecution.
Cayley_InsertExecution ==
    \E i \in 1..Len(mgrs), domains \in DomainLists :
        /\ mgrs[i].variant = "Cayley"
        /\ lifecycle' = Logged([op |-> "InsertExecution", mgr |-> i, impl |-> "Cayley",
                                before |-> graph, val |-> 0, err |-> FALSE])
        /\ UNCHANGED <<tables, stack, proc, history, qres, nfail, mgrs, migrations,
                       graph>>

\* ------------------------------------------------------------------ behaviours
InitWorkers(ws) ==
    /\ assets = <<>>
    /\ relations = <<>>
    /\ executions = <<>>
    /\ execution_logs = <<>>
    /\ serial = [assets |-> 0, relations |-> 0, executions |-> 0, execution_logs |-> 0]
    /\ stack = [w \in ws |-> <<>>]
    /\ proc = [w \in ws |-> Idle]
    /\ history = <<>>
    /\ qres = NoQuery
    /\ nfail = 0
    /\ graph = {}
    /\ lifecycle = <<>>

\* The store of a relational manager whose database has been initialized.
InitStore ==
    /\ mgrs = <<GetDatabaseManager_Result([System |-> "postgres", MigrationsTable |-> ""])>>
    /\ migrations = Initialized

\* One caller: its store operations run one after the other.
Init == InitWorkers({1}) /\ InitStore

\* Two callers: the statements of their store operations interleave.
InitConc == InitWorkers({1, 2}) /\ InitStore

\* No manager has been constructed and the database does not exist.
InitBackend ==
    /\ InitWorkers({1})
    /\ mgrs = <<>>
    /\ migrations = NoDatabase

Next ==
    \/ InsertExecution
    \/ InsertFQDN
    \/ InsertCNAME
    \/ InsertPTR
    \/ InsertNS
    \/ InsertMX
    \/ InsertSRV
    \/ InsertA
    \/ InsertAAAA
    \/ InsertInfrastructure

\* The insert operations of one caller.
Spec == Init /\ [][Next]_vars

NextRecords ==
    \/ InsertExecution
    \/ InsertCNAME
    \/ InsertPTR
    \/ InsertNS
    \/ InsertMX
    \/ InsertSRV
    \/ InsertA
    \/ InsertAAAA
    \/ InsertInfrastructure

\* The record operations of one caller: every node is made by a record.
SpecRecords == Init /\ [][NextRecords]_vars

NextQuery ==
    \/ Next
    \/ IsCNAMENode
    \/ EventFQDNs
    \/ NamesToAddrs
    \/ TakeResult

\* The insert operations and the queries of one caller.
SpecQuery == Init /\ [][NextQuery]_vars

NextConc ==
    \/ InsertExecution
    \/ \E w \in Workers : InsertFQDN_Call(w)
    \/ \E w \in Workers : Step(w)

\* Two callers of InsertFQDN.
SpecConc == InitConc /\ [][NextConc]_vars

NextDelete ==
    \/ Next
    \/ DeleteExecution
    \/ DeleteAsset

\* The insert operations of one caller, and deletions of rows.
SpecDelete == Init /\ [][NextDelete]_vars

NextBackend ==
    \/ GetDatabaseManager
    \/ CreateDatabaseIfNotExists
    \/ DropDatabase
    \/ IsDatabaseCreated
    \/ RunInitMigration
    \/ RunMigrations
    \/ GetPendingMigrationsCount
    \/ getAppliedMigrationsCount
    \/ AddMigration
    \/ Cayley_InsertFQDN
    \/ Cayley_InsertExecution

\* The managers of the configurations and the lifecycle of the database.
SpecBackend == InitBackend /\ [][NextBackend]_vars

\* Two relational managers of one process, the first with a tracking table
\* of its own and the second with none, on a database that exists.
InitTables ==
    /\ InitWorkers({1})
    /\ mgrs = <<GetDatabaseManager_Result([System |-> "postgres",
                                           MigrationsTable |-> "amass_migrations"]),
                GetDatabaseManager_Result([System |-> "", MigrationsTable |-> ""])>>
    /\ migrations = [NoDatabase EXCEPT !.created = TRUE]

NextTables ==
    \/ getAppliedMigrationsCount
    \/ GetPendingMigrationsCount
    \/ RunInitMigration
    \/ RunMigrations
    \/ AddMigration

\* The migration operations of two relational managers.
SpecTables == InitTables /\ [][NextTables]_vars

\* ------------------------------------------------------------------- claims
\* The vocabulary of the properties below.
AssetRows == Range(assets)
RelationRows == Range(relations)
LogRows == Range(execution_logs)

RecordOps ==
    {"InsertCNAME", "InsertPTR", "InsertNS", "InsertMX", "InsertSRV", "InsertA",
     "InsertAAAA", "InsertInfrastructure"}

\* The fqdn nodes that name n identifies: those the lookup by n finds.
FQDNNodes(n) == {a \in AssetRows : a.type = "fqdn" /\ JSONTextIs(a.content, "name", n)}

\* The fqdn nodes stored under the identity of hostname n.
FQDNNodesOf(n) == FQDNNodes(EffectiveTLDPlusOne(n).domain)

\* The identity key of a node of an infrastructure type.
IdentityKey(a) ==
    CASE a.type = "ip" -> <<a.content.address, a.content.type>>
      [] a.type = "netblock" -> <<a.content.cidr, a.content.type>>
      [] a.type = "as" -> <<a.content.number>>
      [] a.type = "rirorg" -> <<a.content.name>>

\* The edges a record operation creates when it succeeds.
EdgesOf(op) ==
    CASE op = "InsertInfrastructure" -> 3
      [] op = "InsertSRV" -> 2
      [] OTHER -> 1

\* The log rows that tie node id to execution e.
LogRowsFor(id, e) == {l \in LogRows : l.asset_id = id /\ l.execution_id = e}

\* C1: InsertFQDN called twice in succession with the same valid hostname
\* (www.example.com included) returns the same node id both times, and the
\* store then holds exactly one fqdn node of that identity.
C1_InsertFQDNIdempotent ==
    LET n == Len(history)
    IN  (/\ n >= 2
         /\ history[n - 1].op = "InsertFQDN" /\ history[n].op = "InsertFQDN"
         /\ history[n - 1].args.Name = history[n].args.Name
         /\ ~history[n - 1].err /\ ~history[n].err)
        => /\ history[n - 1].val = history[n].val
           /\ Cardinality(FQDNNodesOf(history[n].args.Name)) = 1

\* C2: two InsertFQDN calls for the same identity that overlap in time leave
\* at most one fqdn node of that identity, and both return that node's id.
C2_ConcurrentInsertFQDN ==
    \A i, j \in 1..Len(history) :
        (/\ i < j
         /\ history[i].op = "InsertFQDN" /\ history[j].op = "InsertFQDN"
         /\ history[j].began < i
         /\ EffectiveTLDPlusOne(history[i].args.Name).domain
                = EffectiveTLDPlusOne(history[j].args.Name).domain
         /\ ~history[i].err /\ ~history[j].err)
        => /\ Cardinality(FQDNNodesOf(history[i].args.Name)) <= 1
           /\ \A a \in FQDNNodesOf(history[i].args.Name) :
                  history[i].val = a.id /\ history[j].val = a.id

\* C3: after any sequence of InsertA, InsertAAAA and InsertInfrastructure
\* calls the store holds at most one node per identity key for each of the
\* types ip, netblock, as and rirorg.
C3_OneNodePerIdentity ==
    \A a, b \in AssetRows :
        (/\ a.type \in {"ip", "netblock", "as", "rirorg"}
         /\ a.type = b.type
         /\ IdentityKey(a) = IdentityKey(b))
        => a.id = b.id

\* C4: a record operation one of whose node upserts, log inserts or edge
\* creations failed leaves none of the rows it wrote visible.
C4_AllOrNothing ==
    \A i \in 1..Len(history) :
        (history[i].op \in RecordOps /\ history[i].failed)
        => /\ \A a \in AssetRows : a.id \notin history[i].made.assets
           /\ \A l \in LogRows : l.id \notin history[i].made.logs
           /\ \A r \in RelationRows : r.id \notin history[i].made.relations

\* C5: a record operation in which a node upsert or an edge creation failed
\* returns an error, and one that returns no error has persisted every edge
\* it was asked to create.
C5_FailureIsReported ==
    \A i \in 1..Len(history) :
        history[i].op \in RecordOps
        => /\ history[i].failed => history[i].err
           /\ ~history[i].err
              => /\ Cardinality(history[i].made.relations) = EdgesOf(history[i].op)
                 /\ \A id \in history[i].made.relations :
                        \E r \in RelationRows : r.id = id

\* C6: on a store that holds neither name, a successful
\* InsertCNAME(fqdn = www.example.com, target = example.com) creates exactly
\* two fqdn nodes, one identified by www.example.com and one identified by
\* example.com, and exactly one edge, of type cname_record, from the node of
\* www.example.com to the node of example.com.
C6_CNAMECreatesTwoNodes ==
    LET inserts == SelectSeq(history, IsInsert)
    IN  (/\ Len(inserts) = 1
         /\ inserts[1].op = "InsertCNAME"
         /\ inserts[1].args = [Fqdn |-> "www.example.com", Target |-> "example.com"]
         /\ ~inserts[1].failed /\ ~inserts[1].err)
        => /\ Cardinality({a \in AssetRows : a.type = "fqdn"}) = 2
           /\ Cardinality(FQDNNodes("www.example.com")) = 1
           /\ Cardinality(FQDNNodes("example.com")) = 1
           /\ Cardinality(RelationRows) = 1
           /\ \A r \in RelationRows :
                  /\ r.type = "cname_record"
                  /\ \E a \in FQDNNodes("www.example.com") : r.from_asset_id = a.id
                  /\ \E a \in FQDNNodes("example.com") : r.to_asset_id = a.id

\* The fqdn node identified by n has an outgoing cname_record edge.
HasCNAMEEdge(n) ==
    \E a \in FQDNNodes(n), r \in RelationRows :
        r.from_asset_id = a.id /\ r.type = "cname_record"

\* C7: IsCNAMENode(name) returns true if and only if the fqdn node named name
\* has at least one outgoing cname_record edge: true for the source name of
\* a successful InsertCNAME, false for a name that never was one.
C7_IsCNAMENodeExact ==
    (qres.op = "IsCNAMENode" /\ ~qres.err) => (qres.val <=> HasCNAMEEdge(qres.fqdn))

\* C8: after a successful InsertA(n, a) under execution E, NamesToAddrs(E, n)
\* contains the pair (n, a), and every pair NamesToAddrs returns has one of
\* the names passed to it.
C8_NamesToAddrsScoped ==
    (qres.op = "NamesToAddrs" /\ ~qres.err /\ qres.names # <<>>)
    => /\ \A i \in 1..Len(qres.val) : qres.val[i].Name \in Range(qres.names)
       /\ \A i \in 1..Len(history) :
              (/\ history[i].op = "InsertA"
               /\ ~history[i].err
               /\ history[i].info.EventID = qres.execID
               /\ history[i].args.Fqdn \in Range(qres.names))
              => [Name |-> history[i].args.Fqdn, Addr |-> history[i].args.Address]
                     \in Range(qres.val)

\* The fqdn nodes that have an execution-log row for E.
LoggedFQDNNodes(E) == {a \in AssetRows : a.type = "fqdn" /\ LogRowsFor(a.id, E) # {}}

\* Their names.
LoggedFQDNs(E) == {a.content.name : a \in LoggedFQDNNodes(E)}

\* C9: after any sequence of insert operations under several executions,
\* EventFQDNs(E) returns exactly the names of the fqdn nodes that have an
\* execution-log row for E, one for each such node: every such name, no name
\* of a node of another type, no name whose node is logged only under another
\* execution; it is the empty sequence when E has no logged nodes.
C9_EventFQDNsExact ==
    \A E \in EventIDs :
        LET names == EventFQDNs_Result(E)
        IN  /\ Range(names) = LoggedFQDNs(E)
            /\ Len(names) = Cardinality(LoggedFQDNNodes(E))
            /\ (\A a \in AssetRows : LogRowsFor(a.id, E) = {}) => names = <<>>

\* Execution 1 has a logged fqdn node and a logged node of another type,
\* execution 2 has a logged fqdn node of a name execution 1 has not.
C9_Witness ==
    /\ EventFQDNs_Result(1) # <<>>
    /\ \E a \in AssetRows : a.type # "fqdn" /\ LogRowsFor(a.id, 1) # {}
    /\ \E n \in LoggedFQDNs(2) : n \notin LoggedFQDNs(1)
    /\ \E n \in LoggedFQDNs(1) : n \notin LoggedFQDNs(2)

\* C10: every node an insert operation created under execution E has exactly
\* one execution-log row for E once the operation has returned, whether or
\* not the log insert can fail.
C10_CreatedNodeIsLogged ==
    \A i \in 1..Len(history) :
        IsInsert(history[i])
        => \A id \in history[i].made.assets :
               Cardinality(LogRowsFor(id, history[i].info.EventID)) = 1

\* Event e is a call of lifecycle method op on a relational manager.
IsPostgresCall(e, op) == e.op = op /\ e.impl = "Postgres"

\* Two events are on record, one straight after the other.
Successive == Len(lifecycle) = 2

\* C11: when RunMigrations has returned without error and is called again
\* straight away (no migration file added in between), the second call
\* applies no migration, prints that there is none to apply, returns no
\* error and leaves the set of applied migrations as it was (a second call
\* that cannot reach the database is set aside).
C11_RunMigrationsTwice ==
    (/\ Successive
     /\ IsPostgresCall(lifecycle[1], "RunMigrations")
     /\ IsPostgresCall(lifecycle[2], "RunMigrations")
     /\ lifecycle[1].mgr = lifecycle[2].mgr
     /\ ~lifecycle[1].err
     /\ ~lifecycle[2].faulted)
        => /\ lifecycle[2].n = 0
           /\ lifecycle[2].out = "No migrations to apply."
           /\ ~lifecycle[2].err
           /\ migrations = lifecycle[2].before
           /\ GetMigrationRecords(migrations) = migrations.source

\* RunMigrations has applied migrations and has been called again.
C11_Witness ==
    /\ Successive
    /\ IsPostgresCall(lifecycle[1], "RunMigrations")
    /\ IsPostgresCall(lifecycle[2], "RunMigrations")
    /\ lifecycle[1].mgr = lifecycle[2].mgr
    /\ ~lifecycle[1].err
    /\ ~lifecycle[2].faulted
    /\ lifecycle[2].n = 0
    /\ Cardinality(GetMigrationRecords(migrations)) = 2

\* The latest event.
Latest == lifecycle[Len(lifecycle)]

\* The migration files not recorded as applied in database s.
Pending(s) == s.source \ GetMigrationRecords(s)

\* C12: RunInitMigration on a database it can reach applies every pending
\* migration when none is recorded as applied, and applies nothing and
\* returns no error when one or more are, whatever is pending; a call
\* that applies a migration is a call made with none applied.
C12_RunInitMigrationGuard ==
    (lifecycle # <<>> /\ IsPostgresCall(Latest, "RunInitMigration"))
        => /\ (migrations # Latest.before) => GetMigrationRecords(Latest.before) = {}
           /\ (Latest.before.created /\ ~Latest.faulted)
                  => /\ ~Latest.err
                     /\ IF GetMigrationRecords(Latest.before) = {}
                        THEN /\ GetMigrationRecords(migrations) = Latest.before.source
                             /\ Latest.n = Cardinality(Latest.before.source)
                        ELSE /\ migrations = Latest.before
                             /\ Latest.n = 0

\* RunInitMigration has returned on a database that has a migration
\* applied and another pending.
C12_Witness ==
    /\ lifecycle # <<>>
    /\ IsPostgresCall(Latest, "RunInitMigration")
    /\ GetMigrationRecords(Latest.before) # {}
    /\ Pending(Latest.before) # {}
    /\ ~Latest.err
    /\ Pending(migrations) # {}

\* The step is a DELETE of row id by statement op, without error.
Deletes(op, id) ==
    /\ Len(history') = Len(history) + 1
    /\ history'[Len(history')].op = op
    /\ history'[Len(history')].args.id = id
    /\ ~history'[Len(history')].err

\* No relation and no log row refers to a row that is not there.
NoDanglingRow ==
    /\ \A r \in RelationRows :
           {r.from_asset_id, r.to_asset_id} \subseteq {a.id : a \in AssetRows}
    /\ \A l \in LogRows :
           /\ l.asset_id \in {a.id : a \in AssetRows}
           /\ l.execution_id \in {e.id : e \in Range(executions)}

\* A DELETE of an execution removes the execution_logs rows that refer to
\* it and nothing else; a DELETE of an asset removes the relations and
\* execution_logs rows that refer to it and nothing else.
Cascades ==
    /\ \A id \in {e.id : e \in Range(executions)} :
        Deletes("DeleteExecution", id)
            => /\ id \notin {e.id : e \in Range(executions')}
               /\ Range(execution_logs') = {l \in LogRows : l.execution_id # id}
               /\ assets' = assets
               /\ relations' = relations
               /\ NoDanglingRow'
    /\ \A id \in {a.id : a \in AssetRows} :
        Deletes("DeleteAsset", id)
            => /\ id \notin {a.id : a \in Range(assets')}
               /\ Range(relations') =
                    {r \in RelationRows : id \notin {r.from_asset_id, r.to_asset_id}}
               /\ Range(execution_logs') = {l \in LogRows : l.asset_id # id}
               /\ Range(assets') = {a \in AssetRows : a.id # id}
               /\ executions' = executions
               /\ NoDanglingRow'

\* C13: deleting an execution deletes every execution_logs row that refers
\* to it and leaves the assets as they are; deleting an asset deletes every
\* relations row that has it as from or to and every execution_logs row
\* that refers to it; after either, no relations or execution_logs row
\* refers to a missing row.
C13_DeleteCascades == [][Cascades]_vars

\* An asset has been deleted, and relations and log rows with it.
C13_Witness ==
    /\ history # <<>>
    /\ history[Len(history)].op = "DeleteAsset"
    /\ ~history[Len(history)].err
    /\ Len(relations) < serial.relations
    /\ Len(execution_logs) < serial.execution_logs
    /\ Len(assets) = serial.assets - 1
    /\ assets # <<>>

\* C14: in every state, also one left by an operation that failed between
\* two of its statements, the from and to of each relations row are ids of
\* assets rows, and no operation has asked for an edge before both of its
\* endpoints were there (the database refuses such an edge).
C14_EdgeAfterEndpoints ==
    /\ \A r \in RelationRows :
           {r.from_asset_id, r.to_asset_id} \subseteq {a.id : a \in AssetRows}
    /\ \A i \in 1..Len(history) : history[i].made.refused = {}

\* An edge is stored and an operation has failed after it had created a
\* node and before it had created its edge.
C14_Witness ==
    /\ relations # <<>>
    /\ \E i \in 1..Len(history) :
           /\ history[i].op \in RecordOps
           /\ history[i].err
           /\ history[i].made.assets # {}
           /\ history[i].made.relations = {}

\* The step is the return of an InsertFQDN call whose lookup found a node
\* with the name it was given.
InsertFQDN_Found ==
    /\ Len(history') = Len(history) + 1
    /\ history'[Len(history')].op = "InsertFQDN"
    /\ \E a \in AssetRows : JSONTextIs(a.content, "name", history'[Len(history')].args.Name)

\* An InsertFQDN call that finds a node writes nothing, and no step changes
\* or removes a row of assets.
WritesOnlyNewNodes ==
    /\ InsertFQDN_Found => UNCHANGED tables
    /\ Len(assets') >= Len(assets)
    /\ \A i \in 1..Len(assets) : assets'[i] = assets[i]

\* C15: an InsertFQDN call whose lookup finds an existing node performs no
\* write at all, and no operation changes the type or content of a node
\* after its creation.
C15_NodesImmutable == [][WritesOnlyNewNodes]_vars

\* InsertFQDN has returned the id of a node that was there before the call.
C15_Witness ==
    \E i \in 1..Len(history) :
        /\ history[i].op = "InsertFQDN"
        /\ ~history[i].err
        /\ history[i].made = NothingMade
        /\ \E a \in AssetRows : a.id = history[i].val

\* C16: an upsert whose raw input cannot be normalized returns an error and
\* writes nothing: InsertFQDN of a name without a registrable domain
\* creates no row, and InsertInfrastructure with a CIDR that does not parse
\* returns an error and creates no netblock node.
C16_UnnormalizableRefused ==
    \A i \in 1..Len(history) :
        /\ (history[i].op = "InsertFQDN" /\ ~EffectiveTLDPlusOne(history[i].args.Name).ok)
              => /\ history[i].err
                 /\ history[i].made = NothingMade
        /\ (history[i].op = "InsertInfrastructure" /\ ~ParseCIDR(history[i].args.Cidr).ok)
              => /\ history[i].err
                 /\ \A a \in AssetRows :
                        a.id \in history[i].made.assets => a.type # "netblock"

\* The arguments of history entry h hold an address that net.ParseIP rejects.
BadAddress(h) ==
    /\ h.op \in {"InsertA", "InsertAAAA", "InsertInfrastructure"}
    /\ ParseIP(h.args.Address) = NilIP

\* C17: InsertA, InsertAAAA or InsertInfrastructure given an address that
\* does not parse as an IP address returns an error and creates no ip node.
C17_BadAddressRefused ==
    \A i \in 1..Len(history) :
        BadAddress(history[i])
            => /\ history[i].err
               /\ \A a \in AssetRows :
                      a.id \in history[i].made.assets => a.type # "ip"

\* The lifecycle methods of a manager.
LifecycleOps ==
    {"CreateDatabaseIfNotExists", "DropDatabase", "IsDatabaseCreated",
     "RunInitMigration", "RunMigrations", "GetPendingMigrationsCount",
     "getAppliedMigrationsCount"}

\* The latest event, when it is a call on a manager.
ManagerCalls ==
    {e \in {lifecycle[k] : k \in {Len(lifecycle)} \ {0}} :
        e.op \notin {"GetDatabaseManager", "AddMigration"}}

\* C18: the variant of a manager follows from System alone: the native
\* graph for "cayley", the relational one for "postgres" and for every
\* other value, the empty one too; the manager holds the configuration it
\* was asked for, and each of its calls runs the method of that variant.
C18_VariantFromSystem ==
    /\ \A i \in 1..Len(mgrs) :
           mgrs[i].variant = IF mgrs[i].db.System = "cayley" THEN "Cayley" ELSE "Postgres"
    /\ (lifecycle # <<>> /\ Latest.op = "GetDatabaseManager")
           => mgrs[Latest.mgr].db = Latest.db
    /\ \A e \in ManagerCalls : e.impl = mgrs[e.mgr].variant

\* A manager asked for with a System that is neither "postgres" nor
\* "cayley" has run a lifecycle method.
C18_Witness ==
    \E e \in ManagerCalls :
        /\ mgrs[e.mgr].db.System \notin {"postgres", "cayley"}
        /\ e.op = "CreateDatabaseIfNotExists"
        /\ e.impl = "Postgres"
        /\ migrations.created

\* The step is a call of a lifecycle method on a native-graph manager.
Cayley_LifecycleCall ==
    /\ lifecycle' # lifecycle
    /\ lifecycle'[Len(lifecycle')].op \in LifecycleOps
    /\ lifecycle'[Len(lifecycle')].impl = "Cayley"

\* A lifecycle call on a native-graph manager returns no error and a zero
\* count, applies nothing and changes neither graph, managers, database
\* nor tables.
Cayley_NoOp ==
    Cayley_LifecycleCall
        => /\ ~lifecycle'[Len(lifecycle')].err
           /\ lifecycle'[Len(lifecycle')].n = 0
           /\ IF lifecycle'[Len(lifecycle')].op = "IsDatabaseCreated"
              THEN lifecycle'[Len(lifecycle')].val = FALSE
              ELSE lifecycle'[Len(lifecycle')].val = 0
           /\ lifecycle'[Len(lifecycle')].out = ""
           /\ UNCHANGED <<graph, mgrs, migrations, tables, nfail>>

\* C19: on the native-graph manager every lifecycle method is a no-op: it
\* returns no error, reports zero migrations and changes neither the graph
\* nor the manager, after any sequence of calls.
C19_CayleyLifecycleNoOp == [][Cayley_NoOp]_vars

\* A native-graph manager whose graph holds a name has run RunInitMigration
\* straight after RunMigrations.
C19_Witness ==
    /\ Successive
    /\ lifecycle[1].op = "RunMigrations"
    /\ lifecycle[1].impl = "Cayley"
    /\ lifecycle[2].op = "RunInitMigration"
    /\ lifecycle[2].impl = "Cayley"
    /\ graph # {}
    /\ Pending(migrations) # {}

\* C20: every InsertExecution call that returns no error returns the id of
\* a new execution: two calls never return the same id, and the id of the
\* later call is not less than that of the earlier.
C20_ExecutionIdsDistinct ==
    /\ \A i, j \in 1..Len(history) :
           (/\ i < j
            /\ history[i].op = "InsertExecution" /\ ~history[i].err
            /\ history[j].op = "InsertExecution" /\ ~history[j].err)
               => history[i].val < history[j].val
    /\ (/\ Successive
        /\ lifecycle[1].op = "InsertExecution" /\ ~lifecycle[1].err
        /\ lifecycle[2].op = "InsertExecution" /\ ~lifecycle[2].err)
           => lifecycle[1].val < lifecycle[2].val

\* The executions of the store.
ExecutionIds == {e.id : e \in Range(executions)}

\* The (name, address) pairs of the store: an fqdn node, an ip node and an
\* a_record or aaaa_record edge from the one to the other.
AddressPairs(node) ==
    {[Name |-> node.content.name, Addr |-> ip.content.address] :
        ip \in {a \in AssetRows :
                  /\ a.type = "ip"
                  /\ \E r \in RelationRows :
                         /\ r.type \in {"a_record", "aaaa_record"}
                         /\ r.from_asset_id = node.id
                         /\ r.to_asset_id = a.id}}

\* C21: NamesToAddrs(E) without names returns the pairs of the fqdn nodes
\* logged under execution E, whichever execution made their edges, and no
\* pair of an fqdn node that is logged under other executions only.
C21_NamesToAddrsOfExecution ==
    \A E \in ExecutionIds :
        Range(NamesToAddrs_Result(E, <<>>)) = UNION {AddressPairs(n) : n \in LoggedFQDNNodes(E)}

\* The rows with the ids of ids.
AssetsOf(ids) == {a \in AssetRows : a.id \in ids}
RelationsOf(ids) == {r \in RelationRows : r.id \in ids}

\* The calls of the store operations ops that have returned.
CallsOf(ops) == {history[i] : i \in {j \in 1..Len(history) : history[j].op \in ops}}

\* Edge r of type runs from an fqdn node named as the code names fqdn to
\* an ip node of version that call h created.
IsHostEdge(r, h, type, version) ==
    /\ r.type = type
    /\ \E a \in FQDNNodesOf(h.args.Fqdn) : a.id = r.from_asset_id
    /\ \E a \in AssetsOf(h.made.assets) :
           a.id = r.to_asset_id /\ a.type = "ip" /\ a.content.type = version

\* Call h of InsertA or InsertAAAA made no edge but the one of its record,
\* and made it when none of its statements failed.
HostRecordEdge(h, type, version) ==
    /\ \A r \in RelationsOf(h.made.relations) : IsHostEdge(r, h, type, version)
    /\ ~h.failed => Cardinality(h.made.relations) = 1
    /\ Cardinality(h.made.relations) <= 1

RecordType(op) ==
    CASE op = "InsertCNAME" -> "cname_record"
      [] op = "InsertPTR" -> "ptr_record"
      [] op = "InsertNS" -> "ns_record"
      [] op = "InsertMX" -> "mx_record"

\* Edge r of type runs from a node of name from to another node, of name to.
IsNameEdge(r, type, from, to) ==
    /\ r.type = type
    /\ r.from_asset_id # r.to_asset_id
    /\ \E a \in FQDNNodesOf(from) : a.id = r.from_asset_id
    /\ \E a \in FQDNNodesOf(to) : a.id = r.to_asset_id

C24_SRVCreatesThreeNodes ==
    LET inserts == SelectSeq(history, IsInsert)
    IN  (/\ Len(inserts) = 1
         /\ inserts[1].op = "InsertSRV"
         /\ ~inserts[1].failed /\ ~inserts[1].err)
        => /\ Cardinality({a \in AssetRows : a.type = "fqdn"}) = 3
           /\ {r.type : r \in RelationRows} = {"service", "srv_record"}
           /\ Cardinality(RelationRows) = 2
           /\ Cardinality({r.from_asset_id : r \in RelationRows}) = 1

\* The node of type among those call h created, when it created one.
MadeOf(h, type) == {a \in AssetsOf(h.made.assets) : a.type = type}

\* Call h created an edge of type from its node of type from to its node of
\* type to, and no other edge of that type.
MadeEdge(h, type, from, to) ==
    /\ Cardinality({r \in RelationsOf(h.made.relations) : r.type = type}) = 1
    /\ \A r \in RelationsOf(h.made.relations) :
           r.type = type => /\ \E a \in MadeOf(h, from) : a.id = r.from_asset_id
                            /\ \E a \in MadeOf(h, to) : a.id = r.to_asset_id

InfrastructureTypes == {"ip", "netblock", "as", "rirorg"}

\* C25: a successful InsertInfrastructure upserts one ip, one netblock, one
\* as and one rirorg node and creates exactly three edges, contains from the
\* netblock to the ip, announces from the as to the netblock and managed_by
\* from the as to the rirorg; a call holds all four nodes before it
\* creates its first edge.
C25_InfrastructureEdges ==
    \A h \in CallsOf({"InsertInfrastructure"}) :
        /\ h.made.relations # {}
           => \A type \in InfrastructureTypes : Cardinality(MadeOf(h, type)) = 1
        /\ ~h.err
           => /\ Cardinality(h.made.assets) = 4
              /\ \A type \in InfrastructureTypes : Cardinality(MadeOf(h, type)) = 1
              /\ Cardinality(h.made.relations) = 3
              /\ MadeEdge(h, "contains", "netblock", "ip")
              /\ MadeEdge(h, "announces", "as", "netblock")
              /\ MadeEdge(h, "managed_by", "as", "rirorg")

\* An InsertInfrastructure has succeeded, and another has failed after its
\* first edge.
C25_Witness ==
    /\ \E h \in CallsOf({"InsertInfrastructure"}) : ~h.err
    /\ \E h \in CallsOf({"InsertInfrastructure"}) : h.err /\ h.made.relations # {}

\* The types of the edges that DNS records create between two names, and
\* from a name to an address.
NameEdgeTypes ==
    {"cname_record", "ptr_record", "ns_record", "mx_record", "service", "srv_record"}
HostEdgeTypes == {"a_record", "aaaa_record"}

\* The types of the nodes with identifier id.
TypesOf(id) == {a.type : a \in AssetsOf({id})}

\* C26: the identifier that InsertFQDN returns is that of a node of type
\* fqdn, never that of a node of another type carrying the same name, and
\* every DNS record edge has fqdn nodes where it has names.
C26_FQDNLookupTyped ==
    /\ \A h \in CallsOf({"InsertFQDN"}) : ~h.err => TypesOf(h.val) = {"fqdn"}
    /\ \A r \in RelationRows :
           /\ r.type \in NameEdgeTypes \cup HostEdgeTypes
              => TypesOf(r.from_asset_id) = {"fqdn"}
           /\ r.type \in NameEdgeTypes => TypesOf(r.to_asset_id) = {"fqdn"}

\* Call h of InsertFQDN returned the fqdn node a that was stored before it
\* under another execution.
Reupserted(h, a) ==
    /\ ~h.err
    /\ a.id = h.val
    /\ a.type = "fqdn"
    /\ a.id \notin h.made.assets
    /\ \E l \in LogRows : l.asset_id = a.id /\ l.execution_id # h.info.EventID

\* C27: when InsertFQDN under execution E' returns an fqdn node that was
\* stored already, an execution-log row links the node to E' and
\* EventFQDNs(E') holds its name.
C27_ReupsertIsLogged ==
    \A h \in CallsOf({"InsertFQDN"}) : \A a \in AssetRows :
        Reupserted(h, a)
        => /\ \E l \in LogRows : l.asset_id = a.id /\ l.execution_id = h.info.EventID
           /\ a.content.name \in Range(EventFQDNs_Result(h.info.EventID))

\* The latest event is a call of RunMigrations or RunInitMigration on a
\* relational manager.
MigrationRun ==
    /\ lifecycle # <<>>
    /\ IsPostgresCall(Latest, "RunMigrations") \/ IsPostgresCall(Latest, "RunInitMigration")

\* The first n migrations of the plan on database s.
Executed(s, n) == Range(SubSeq(PlanMigration(s), 1, n))

\* C28: a run applies the pending migrations in the order of their
\* declaration and records exactly those it executed: after a run that
\* executed n migrations the records are those before it and the first n of
\* its plan, no more when one failed, and a run that stops before the end
\* of its plan returns an error.
C28_AppliedIsExecutedPrefix ==
    MigrationRun
    => /\ GetMigrationRecords(migrations)
             = GetMigrationRecords(Latest.before) \cup Executed(Latest.before, Latest.n)
       /\ GetMigrationRecords(Latest.before) \cap Executed(Latest.before, Latest.n) = {}
       /\ \A t \in Tables \ {migrations.table} :
              migrations.applied[t] = Latest.before.applied[t]
       /\ (/\ Latest.n < Len(PlanMigration(Latest.before))
           /\ Latest.op = "RunMigrations" \/ GetMigrationRecords(Latest.before) = {})
              => Latest.err

\* A run has applied a migration and failed at the next.
C28_Witness ==
    /\ MigrationRun
    /\ Latest.err
    /\ Latest.n >= 1
    /\ Latest.n < Len(PlanMigration(Latest.before))
    /\ Cardinality(GetMigrationRecords(migrations)) = Latest.n

\* The latest event is a call of op on a relational manager that returned
\* no error.
ReturnedFrom(op) == lifecycle # <<>> /\ IsPostgresCall(Latest, op) /\ ~Latest.err

\* C29: GetPendingMigrationsCount returns the number of declared migrations
\* without an applied record, so that the applied and the pending count
\* add up to the declared migrations; no migration is pending after a
\* RunMigrations that returned no error, nor after such a RunInitMigration
\* on a database with no migration applied.
C29_PendingIsDeclaredLessApplied ==
    /\ GetMigrationRecords(migrations) \subseteq migrations.source
    /\ ReturnedFrom("GetPendingMigrationsCount")
          => /\ Latest.val = Cardinality(Pending(migrations))
             /\ Latest.val + Cardinality(GetMigrationRecords(migrations))
                   = Cardinality(migrations.source)
    /\ ReturnedFrom("getAppliedMigrationsCount")
          => Latest.val = Cardinality(GetMigrationRecords(migrations))
    /\ ReturnedFrom("RunMigrations") => Pending(migrations) = {}
    /\ (ReturnedFrom("RunInitMigration") /\ GetMigrationRecords(Latest.before) = {})
          => Pending(migrations) = {}

\* GetPendingMigrationsCount has counted a pending migration on a database
\* with another applied.
C29_Witness ==
    /\ ReturnedFrom("GetPendingMigrationsCount")
    /\ Latest.val = 1
    /\ Cardinality(GetMigrationRecords(migrations)) = 1

\* The tracking table of configuration db: its MigrationsTable, or the
\* default one when that is empty.
ConfiguredTable(db) == IF db.MigrationsTable = "" THEN DefaultTable ELSE db.MigrationsTable

\* C30: every migration operation of a relational manager reads and writes
\* the tracking table of the manager's configuration, the default table
\* when the configuration names none, whichever managers ran migration
\* operations before it: it finds that table set, leaves the records of
\* every other table as they were, and counts the records of that table.
C30_TableOfManager ==
    (lifecycle # <<>> /\ Latest.op \in MigrationOps /\ Latest.impl = "Postgres")
    => /\ Latest.before.table = ConfiguredTable(mgrs[Latest.mgr].db)
       /\ \A t \in Tables \ {ConfiguredTable(mgrs[Latest.mgr].db)} :
              migrations.applied[t] = Latest.before.applied[t]
       /\ ReturnedFrom("getAppliedMigrationsCount")
              => Latest.val
                    = Cardinality(migrations.applied[ConfiguredTable(mgrs[Latest.mgr].db)])

\* The frame worker w is in.
FrameOf(w) == stack[w][Len(stack[w])]

\* Worker w runs the statement at pc of its InsertFQDN in this step.
RunsInsertFQDN(w, pc) ==
    /\ proc[w] # Idle
    /\ stack[w] # <<>>
    /\ FrameOf(w).fn = "InsertFQDN"
    /\ FrameOf(w).pc = pc
    /\ stack'[w] # stack[w]

\* The lookup of worker w fails: the call returns (0, error) at once, with
\* nothing written.
LookupFailureReturned(w) ==
    /\ UNCHANGED tables
    /\ proc'[w] = Idle
    /\ stack'[w] = <<>>
    /\ Len(history') = Len(history) + 1
    /\ history'[Len(history')].op = "InsertFQDN"
    /\ history'[Len(history')].args = proc[w].args
    /\ history'[Len(history')].err
    /\ history'[Len(history')].val = 0
    /\ history'[Len(history')].made = NothingMade

\* The lookup of worker w misses: nothing is returned, and the insert is
\* the next statement of the call.
LookupMissInserts(w) ==
    /\ UNCHANGED <<tables, history>>
    /\ proc'[w] # Idle
    /\ stack'[w] # <<>>
    /\ stack'[w][Len(stack'[w])].fn = "InsertFQDN"
    /\ stack'[w][Len(stack'[w])].pc = "create"

LookupHandled ==
    \A w \in Workers :
        /\ (RunsInsertFQDN(w, "lookup") /\ nfail' # nfail) => LookupFailureReturned(w)
        /\ (/\ RunsInsertFQDN(w, "lookup")
            /\ nfail' = nfail
            /\ \A a \in AssetRows : ~JSONTextIs(a.content, "name", FrameOf(w).Name)
            /\ EffectiveTLDPlusOne(FrameOf(w).Name).ok) => LookupMissInserts(w)
        /\ (RunsInsertFQDN(w, "create") /\ nfail' = nfail)
              => /\ Len(assets') = Len(assets) + 1
                 /\ JSONTextIs(assets'[Len(assets')].content, "name",
                               EffectiveTLDPlusOne(FrameOf(w).Name).domain)

\* C31: when the lookup of InsertFQDN fails other than by finding no node
\* (the connection that cannot be opened included), the call returns an
\* error at once, inserts nothing and does not run the lookup again; a
\* lookup that finds no node returns nothing to the caller and is followed
\* by the insert.
C31_LookupFailureReturned == [][LookupHandled]_vars

\* An InsertFQDN called after the node of its name was stored has returned
\* an error (its lookup failed), and another has inserted on a miss.
C31_Witness ==
    \E i, j \in 1..Len(history) :
        /\ i < j
        /\ history[i].op = "InsertFQDN" /\ history[j].op = "InsertFQDN"
        /\ history[i].args = history[j].args
        /\ ~history[i].err /\ history[i].made.assets # {}
        /\ history[j].began >= i
        /\ history[j].err /\ history[j].failed /\ history[j].made = NothingMade

\* What the caller of EventFQDNs gets for query q: the names alone, the
\* signature has no error.
EventFQDNs_Returned(q) == q.val

\* C32: a failure of the backend in EventFQDNs reaches the caller as
\* something other than what the call returns for an execution without
\* logged fqdn nodes, the sequence of no names.
C32_EventFQDNsFailureSeen ==
    (qres.op = "EventFQDNs" /\ qres.err) => EventFQDNs_Returned(qres) # <<>>

\* The versions of an address or a network.
Versions == {"v4", "v6"}

\* C33: every ip node and every netblock node of the store has the version
\* v4 or v6; none is stored with an empty version.
C33_VersionSet ==
    \A a \in AssetRows : a.type \in {"ip", "netblock"} => a.content.type \in Versions

\* The edges of type from node from to node to.
EdgesBetween(type, from, to) ==
    {r \in RelationRows : r.type = type /\ r.from_asset_id = from /\ r.to_asset_id = to}

\* C34: inserting a record that is stored already adds no second edge: the
\* store never holds two edges of one type between the same two nodes.
C34_OneEdgePerRecord ==
    \A r \in RelationRows :
        Cardinality(EdgesBetween(r.type, r.from_asset_id, r.to_asset_id)) = 1

\* C35: the native-graph manager tags every upsert with its execution id
\* converted to a string, and the conversion gives different tags to
\* different ids: a name upserted under execution E does not become a name
\* of EventFQDNs(E') for another execution E'.
C35_EventTagInjective ==
    (/\ lifecycle # <<>>
     /\ Latest.op = "InsertFQDN" /\ Latest.impl = "Cayley" /\ ~Latest.err)
    => \A E \in GraphEventIDs \ {Latest.EventID} :
           /\ string(E) # string(Latest.EventID)
           /\ Latest.Name \in Cayley_EventFQDNs_Result(graph, E)
                  => Latest.Name \in Cayley_EventFQDNs_Result(Latest.before, E)

\* ------------------------------------------------------------------ models
(* The models of package models, created and read back through gorm as the  *)
(* callers of the package do: a value is marshalled into the content of an  *)
(* asset, db.Create inserts the row and fills in the id, db.Last reads the  *)
(* row with the greatest id, and the content is unmarshalled again.  The    *)
(* rows carry created_at here, and history holds the latest db.Create.      *)
MaxRows == 3   \* db.Create calls in one behaviour

\* time.Time: the zero time, and the time of the database.
ZeroTime == 0
CURRENT_TIMESTAMP == 1

ModelTables == {"executions", "execution_logs", "assets", "relations"}

TableRows(t) ==
    CASE t = "executions"     -> executions
      [] t = "execution_logs" -> execution_logs
      [] t = "assets"         -> assets
      [] t = "relations"      -> relations

\* net.IP is a slice of 4 or of 16 bytes; the 16-byte form of an IPv4
\* address starts with v4InV6Prefix.
v4InV6Prefix == <<0, 0, 0, 0, 0, 0, 0, 0, 0, 0, 255, 255>>
ModelIPs ==
    {<<127, 0, 0, 1>>, <<0, 0, 0, 0, 0, 0, 0, 0, 0, 0, 0, 0, 0, 0, 0, 1>>}
ModelIPNets ==
    {[IP |-> <<127, 0, 0, 0>>, Mask |-> <<255, 255, 255, 0>>]}

\* ip.To4(): the 4-byte form of an IPv4 address, nil for any other.
To4(ip) ==
    IF Len(ip) = 4 THEN ip
    ELSE IF Len(ip) = 16 /\ SubSeq(ip, 1, 12) = v4InV6Prefix THEN SubSeq(ip, 13, 16)
    ELSE <<>>

\* ip.String(): the text of an address is dotted for an IPv4 address in
\* either form, and colon-separated for any other.
IP_String(ip) ==
    IF Len(ip) = 0 THEN [form |-> "<nil>", bytes |-> <<>>]
    ELSE IF To4(ip) # <<>> THEN [form |-> "dotted", bytes |-> To4(ip)]
    ELSE [form |-> "colon", bytes |-> ip]

\* ip.MarshalText(): the empty text for a nil address.
IP_MarshalText(ip) ==
    IF Len(ip) = 0 THEN [form |-> "", bytes |-> <<>>] ELSE IP_String(ip)

\* ip.UnmarshalText(text): ParseIP gives the 16-byte form of every address.
IP_UnmarshalText(text) ==
    CASE text.form = "dotted" -> v4InV6Prefix \o text.bytes
      [] text.form = "colon"  -> text.bytes
      [] OTHER                -> <<>>

\* n.String(): the network number in its shortest form, and the mask of the
\* same length.
IPNet_String(n) ==
    LET ip == IF To4(n.IP) # <<>> THEN To4(n.IP) ELSE n.IP
        mask == IF Len(n.Mask) = 16 /\ Len(ip) = 4
                   /\ \A i \in 1..12 : n.Mask[i] = 255
                THEN SubSeq(n.Mask, 13, 16) ELSE n.Mask
    IN  IF Len(ip) \notin {4, 16} \/ Len(mask) # Len(ip)
        THEN [form |-> "<nil>", bytes |-> <<>>, mask |-> <<>>]
        ELSE [form |-> IP_String(ip).form, bytes |-> IP_String(ip).bytes, mask |-> mask]

\* encoding/json writes a slice of bytes in base64 and reads it back.
EncodeToString(bytes) == [base64 |-> bytes]
DecodeString(text) == text.base64

\* The values of the models that hold the content of an asset.
ModelValues ==
    {[struct |-> "FQDN", Name |-> "example.com", Tld |-> "com"],
     [struct |-> "AutonomousSystem", Number |-> 1234],
     [struct |-> "RIROrganization", Name |-> "RIROrg", RIRId |-> "RIR-1", RIR |-> "RIR"]}
    \cup {[struct |-> "IPAddress", Address |-> ip, Type |-> "v4"] : ip \in ModelIPs}
    \cup {[struct |-> "Netblock", Cidr |-> n, Type |-> "v4"] : n \in ModelIPNets}

\* The type the callers give the asset of a value.
AssetType(v) ==
    CASE v.struct = "FQDN"             -> "FQDN"
      [] v.struct = "IPAddress"        -> "IP"
      [] v.struct = "AutonomousSystem" -> "AS"
      [] v.struct = "Netblock"         -> "Netblock"
      [] v.struct = "RIROrganization"  -> "RIROrganization"

\* json.Marshal(v): the object with the keys of the json tags; a net.IPNet
\* has no tags and no text form, and is written field by field.
Marshal(v) ==
    CASE v.struct = "FQDN" -> [name |-> v.Name, tld |-> v.Tld]
      [] v.struct = "AutonomousSystem" -> [number |-> v.Number]
      [] v.struct = "RIROrganization" ->
            [name |-> v.Name, rir_id |-> v.RIRId, rir |-> v.RIR]
      [] v.struct = "IPAddress" ->
            [address |-> IP_MarshalText(v.Address), type |-> v.Type]
      [] v.struct = "Netblock" ->
            [cidr |-> [IP |-> IP_MarshalText(v.Cidr.IP),
                       Mask |-> EncodeToString(v.Cidr.Mask)],
             type |-> v.Type]

\* The member of a JSON object, or the zero value the field keeps without it.
Member(doc, key, zero) == IF key \in DOMAIN doc THEN doc[key] ELSE zero

\* json.Unmarshal(content, &result_content), result_content of the struct.
Unmarshal(struct, doc) ==
    CASE struct = "FQDN" ->
            [struct |-> struct, Name |-> Member(doc, "name", ""),
             Tld |-> Member(doc, "tld", "")]
      [] struct = "AutonomousSystem" ->
            [struct |-> struct, Number |-> Member(doc, "number", 0)]
      [] struct = "RIROrganization" ->
            [struct |-> struct, Name |-> Member(doc, "name", ""),
             RIRId |-> Member(doc, "rir_id", ""), RIR |-> Member(doc, "rir", "")]
      [] struct = "IPAddress" ->
            [struct |-> struct,
             Address |-> IF "address" \in DOMAIN doc
                         THEN IP_UnmarshalText(doc.address) ELSE <<>>,
             Type |-> Member(doc, "type", "")]
      [] struct = "Netblock" ->
            [struct |-> struct,
             Cidr |-> IF "cidr" \in DOMAIN doc
                      THEN [IP |-> IP_UnmarshalText(doc.cidr.IP),
                            Mask |-> DecodeString(doc.cidr.Mask)]
                      ELSE [IP |-> <<>>, Mask |-> <<>>],
             Type |-> Member(doc, "type", "")]

\* The row of a model value in its table, and the model value of a row.
RowOf(t, v, id, now) ==
    CASE t = "executions" -> [id |-> id, created_at |-> now, domains |-> v.Domains]
      [] t = "execution_logs" ->
            [id |-> id, created_at |-> now,
             execution_id |-> v.ExecutionID, asset_id |-> v.AssetID]
      [] t = "assets" ->
            [id |-> id, created_at |-> now, type |-> v.Type, content |-> v.Content]
      [] t = "relations" ->
            [id |-> id, created_at |-> now, type |-> v.Type,
             from_asset_id |-> v.FromAssetID, to_asset_id |-> v.ToAssetID]

Scan(t, r) ==
    CASE t = "executions" -> [ID |-> r.id, CreatedAt |-> r.created_at, Domains |-> r.domains]
      [] t = "execution_logs" ->
            [ID |-> r.id, CreatedAt |-> r.created_at,
             ExecutionID |-> r.execution_id, AssetID |-> r.asset_id]
      [] t = "assets" ->
            [ID |-> r.id, CreatedAt |-> r.created_at, Type |-> r.type, Content |-> r.content]
      [] t = "relations" ->
            [ID |-> r.id, CreatedAt |-> r.created_at, Type |-> r.type,
             FromAssetID |-> r.from_asset_id, ToAssetID |-> r.to_asset_id]

\* The zero value of a model: what db.Last leaves when it reads no row.
ZeroModel(t) ==
    CASE t = "executions" -> [ID |-> 0, CreatedAt |-> ZeroTime, Domains |-> ""]
      [] t = "execution_logs" ->
            [ID |-> 0, CreatedAt |-> ZeroTime, ExecutionID |-> 0, AssetID |-> 0]
      [] t = "assets" -> [ID |-> 0, CreatedAt |-> ZeroTime, Type |-> "", Content |-> <<>>]
      [] t = "relations" ->
            [ID |-> 0, CreatedAt |-> ZeroTime, Type |-> "", FromAssetID |-> 0,
             ToAssetID |-> 0]

\* The foreign keys of the table hold for the value.
KeysHold(t, v) ==
    LET db == [assets |-> assets, executions |-> executions]
    IN  CASE t = "execution_logs" -> LogKeysHold(db, v.AssetID, v.ExecutionID)
          [] t = "relations"      -> RelationKeysHold(db, v.FromAssetID, v.ToAssetID)
          [] OTHER                -> TRUE

\* The rows created so far.
Created == Len(executions) + Len(execution_logs) + Len(assets) + Len(relations)

\* result := db.Create(&in): the row is inserted with the next id of the
\* table and the current time, and in is given both; a statement that fails
\* or breaks a foreign key inserts nothing.  model is the value whose
\* marshalled form is the content, for an asset.  The history keeps the
\* latest call only, and a value read before it is forgotten.
db_Create(t, in, model, fail) ==
    LET id == serial[t] + 1
        now == CURRENT_TIMESTAMP
        ok == ~fail /\ KeysHold(t, in)
        rows == IF ok THEN Append(TableRows(t), RowOf(t, in, id, now)) ELSE TableRows(t)
    IN  /\ Created < MaxRows
        /\ fail => nfail < MaxFailures
        /\ nfail' = IF fail THEN nfail + 1 ELSE nfail
        /\ executions' = IF t = "executions" THEN rows ELSE executions
        /\ execution_logs' = IF t = "execution_logs" THEN rows ELSE execution_logs
        /\ assets' = IF t = "assets" THEN rows ELSE assets
        /\ relations' = IF t = "relations" THEN rows ELSE relations
        /\ serial' = IF ok THEN [serial EXCEPT ![t] = id] ELSE serial
        /\ history' = <<[op |-> "Create", table |-> t, model |-> model,
                         in |-> IF ok THEN Scan(t, RowOf(t, in, id, now)) ELSE in,
                         RowsAffected |-> IF ok THEN 1 ELSE 0, Error |-> ~ok]>>
        /\ qres' = NoQuery
        /\ UNCHANGED <<stack, proc, mgrs, migrations, graph, lifecycle>>

NoModel == [struct |-> "none"]

CreateExecution ==
    \E Domains \in {"example.com", "foo.bar"}, fail \in BOOLEAN :
        db_Create("executions", [ZeroModel("executions") EXCEPT !.Domains = Domains],
                  NoModel, fail)

CreateExecutionLog ==
    \E ExecutionID \in 1..2, AssetID \in 1..2, fail \in BOOLEAN :
        db_Create("execution_logs",
                  [ZeroModel("execution_logs") EXCEPT !.ExecutionID = ExecutionID,
                                                      !.AssetID = AssetID],
                  NoModel, fail)

CreateAsset ==
    \E v \in ModelValues, fail \in BOOLEAN :
        db_Create("assets",
                  [ZeroModel("assets") EXCEPT !.Type = AssetType(v),
                                              !.Content = Marshal(v)],
                  v, fail)

CreateRelation ==
    \E FromAssetID \in 1..2, ToAssetID \in 1..2, fail \in BOOLEAN :
        db_Create("relations",
                  [ZeroModel("relations") EXCEPT !.Type = "related",
                                                 !.FromAssetID = FromAssetID,
                                                 !.ToAssetID = ToAssetID],
                  NoModel, fail)

\* ORDER BY id LIMIT 1, in place of the descending order of db.Last.
Last_Ascending(rows) == CHOOSE r \in Range(rows) : \A s \in Range(rows) : r.id <= s.id

\* SELECT * FROM table ORDER BY id DESC LIMIT 1
Last(rows) == CHOOSE r \in Range(rows) : \A s \in Range(rows) : s.id <= r.id

\* db.Last(&value): value is the last row of the table; it stays the zero
\* value when the statement fails or the table is empty.
db_Last ==
    \E t \in ModelTables, fail \in BOOLEAN :
        LET found == ~fail /\ TableRows(t) # <<>>
        IN  /\ fail => nfail < MaxFailures
            /\ nfail' = IF fail THEN nfail + 1 ELSE nfail
            /\ qres' = [op |-> "Last", table |-> t, err |-> ~found,
                        val |-> IF found THEN Scan(t, Last(TableRows(t)))
                                ELSE ZeroModel(t)]
            /\ UNCHANGED <<tables, stack, proc, history, mgrs, migrations, graph,
                           lifecycle>>

NextModels ==
    \/ CreateExecution
    \/ CreateExecutionLog
    \/ CreateAsset
    \/ CreateRelation
    \/ db_Last

SpecModels == Init /\ [][NextModels]_vars

\* db.Last has read the table of the latest db.Create, which made a row.
ReadBack ==
    /\ qres.op = "Last" /\ ~qres.err
    /\ history # <<>>
    /\ history[1].table = qres.table
    /\ ~history[1].Error

\* Two values of a model are the same content: equal, with addresses and
\* networks compared by their text.
SameContent(a, b) ==
    CASE a.struct = "IPAddress" ->
            IP_String(a.Address) = IP_String(b.Address) /\ a.Type = b.Type
      [] a.struct = "Netblock" ->
            IPNet_String(a.Cidr) = IPNet_String(b.Cidr) /\ a.Type = b.Type
      [] OTHER -> a = b

\* C36: a row created in executions, execution_logs, assets or relations is
\* read back unchanged: db.Last gives the id db.Create assigned, db.Create
\* affected one row, created_at is not the zero time, an execution log keeps
\* its execution and asset ids, a relation keeps its from and to asset ids,
\* and an asset keeps its type and its content, which unmarshals to the
\* value that was marshalled.
C36_ReadBackUnchanged ==
    ReadBack =>
        LET made == history[1]
            row == qres.val
        IN  /\ row.ID = made.in.ID
            /\ made.RowsAffected = 1
            /\ row.CreatedAt # ZeroTime
            /\ qres.table = "execution_logs" =>
                   /\ row.ExecutionID = made.in.ExecutionID
                   /\ row.AssetID = made.in.AssetID
            /\ qres.table = "relations" =>
                   /\ row.FromAssetID = made.in.FromAssetID
                   /\ row.ToAssetID = made.in.ToAssetID
            /\ qres.table = "assets" =>
                   /\ row.Type = made.in.Type
                   /\ SameContent(Unmarshal(made.model.struct, row.Content), made.model)

\* A second asset, a 4-byte address, has been created and read back: its
\* address comes back in the 16-byte form.
C36_Witness ==
    /\ ReadBack
    /\ qres.table = "assets"
    /\ qres.val.ID = 2
    /\ history[1].model.struct = "IPAddress"
    /\ Len(history[1].model.Address) = 4
    /\ Len(Unmarshal("IPAddress", qres.val.Content).Address) = 16
====
